---- MODULE Spec2Model ----
(***************************************************************************)
(* A model of webscribe-mcp: the crawl scheduler (breadth-first, component *)
(* and single-page mode over the shared visitPage primitive), the robots   *)
(* cache and rate limiter, the recrawl check, the Markdown chunker and the *)
(* SQLite store with its FTS shadow table.                                 *)
(*                                                                         *)
(* Asynchronous code is cut at its awaits: every action is one run of code *)
(* between two suspension points of one task.  As on Node's event loop, a  *)
(* continuation that waits for nothing but an already settled promise runs *)
(* before the next network or timer event is delivered.                    *)
(***************************************************************************)
EXTENDS Integers, Sequences, FiniteSets, TLC

VARIABLES
    mode,             \* the operation under way: "bfs", "component", "single", "store"
    args,             \* its arguments and the remote site it runs against
    runState,         \* position of the operation: "start", "running", "returned", "raised"
    queue,            \* crawler.ts queue: URLs waiting for a visit
    visited,          \* crawler.ts visited: normalised URLs claimed for a visit
    crawledUrls,      \* crawler.ts crawledUrls: the success list
    tasks,            \* the visits: task id -> [pc, url, page, md, wake, delayed]
    pages,            \* Playwright page handles: handle -> the document it holds
    robotsCache,      \* robots.ts robotsCache: hostname -> policy (NoPolicy = null)
    delayCache,       \* robots.ts delayCache: hostname -> ms
    lastRequestTime,  \* robots.ts lastRequestTime: hostname -> ms
    now,              \* Date.now()
    documents,        \* table documents_v2: <<url, version>> -> row
    chunks,           \* table chunks: sequence of rows in rowid order
    chunks_fts,       \* FTS5 shadow table chunks_fts: set of index entries
    nextChunkId,      \* AUTOINCREMENT counter of chunks.id
    faults,           \* environment failures injected so far
    robotsFetches,    \* history: hostname -> number of robots.txt fetches issued
    released,         \* history: hostname -> times at which enforceCrawlDelay returned
    navLog,           \* history: page.goto calls, each [url, page, delayed]
    attempts,         \* history: URLs passed to visitPage, in order
    lastOp            \* the last call of the store or of the chunker: its
                      \* arguments, its progress and its outcome

vars == <<mode, args, runState, queue, visited, crawledUrls, tasks, pages,
          robotsCache, delayCache, lastRequestTime, now,
          documents, chunks, chunks_fts, nextChunkId,
          faults, robotsFetches, released, navLog, attempts, lastOp>>

crawlVars == <<queue, visited, crawledUrls>>
robotsVars == <<robotsCache, delayCache, lastRequestTime, robotsFetches, released>>
storeVars == <<documents, chunks, chunks_fts, nextChunkId, lastOp>>

(***************************************************************************)
(* Bounds of the model                                                     *)
(***************************************************************************)
MaxPagesBound == 2     \* maxPages ranges over 1..MaxPagesBound
MaxFaults == 1         \* injected failures (timeouts, failed inserts) per behaviour
MaxCalls == 2          \* calls of extractSinglePage per behaviour
MaxStoreOps == 2       \* writes to the store per behaviour
MaxLines == 4          \* lines of a document given to chunkMarkdown

(***************************************************************************)
(* Small helpers                                                           *)
(***************************************************************************)
Min(a, b) == IF a < b THEN a ELSE b
Max(a, b) == IF a > b THEN a ELSE b
Range(s) == {s[i] : i \in 1..Len(s)}
Last(s) == s[Len(s)]
\* s.slice(0, n), LIMIT n
Slice(s, n) == SubSeq(s, 1, Min(n, Len(s)))

RECURSIVE SumSeq(_)
SumSeq(s) == IF s = <<>> THEN 0 ELSE Head(s) + SumSeq(Tail(s))

RECURSIVE FlatMap(_, _)
FlatMap(F(_), s) == IF s = <<>> THEN <<>> ELSE F(Head(s)) \o FlatMap(F, Tail(s))

RECURSIVE SelectSeqBy(_, _)
SelectSeqBy(T(_), s) ==
    IF s = <<>> THEN <<>>
    ELSE (IF T(Head(s)) THEN <<Head(s)>> ELSE <<>>) \o SelectSeqBy(T, Tail(s))

\* [...new Set(s)]: first occurrences, in order
RECURSIVE Dedup(_)
Dedup(s) ==
    IF s = <<>> THEN <<>>
    ELSE LET front == Dedup(SubSeq(s, 1, Len(s) - 1))
         IN IF Last(s) \in Range(front) THEN front ELSE Append(front, Last(s))

\* map.get(k) ?? d
GetOr(f, k, d) == IF k \in DOMAIN f THEN f[k] ELSE d
\* map.set(k, v)
Put(f, k, v) == [x \in DOMAIN f \cup {k} |-> IF x = k THEN v ELSE f[x]]

(***************************************************************************)
(* URLs.  A URL is its hostname and the sequence of path segments; a final *)
(* empty segment is a trailing slash: https://h/docs/a/ has path           *)
(* <<"docs", "a", "">>, https://h has path <<>>.                           *)
(***************************************************************************)
Url(h, p) == [host |-> h, path |-> p]
NoUrl == Url("", <<>>)

\* s.replace(/\/$/, '') on a path: one trailing slash is removed
StripSlash(p) ==
    IF Len(p) > 0 /\ Last(p) = "" THEN SubSeq(p, 1, Len(p) - 1) ELSE p

\* url.replace(/\/$/, '')
Normalise(u) == Url(u.host, StripSlash(u.path))

\* new URL(link).href: the root path is always "/"
Href(u) == IF u.path = <<>> THEN Url(u.host, <<"">>) ELSE u

\* new URL(url).pathname, as its segments
Pathname(u) == Href(u).path

DEFAULT_SUB_TAB_SUFFIXES ==
    <<"usage", "examples", "accessibility", "api", "props", "code">>

\* normalised.endsWith('/' + s)
EndsWithSegment(u, s) == Len(u.path) > 0 /\ Last(u.path) = s

expandSubTabUrls(url) ==
    LET normalised == Normalise(url)
        alreadyHasSuffix ==
            \E i \in 1..Len(DEFAULT_SUB_TAB_SUFFIXES) :
                EndsWithSegment(normalised, DEFAULT_SUB_TAB_SUFFIXES[i])
    IN IF alreadyHasSuffix THEN <<>>
       ELSE [i \in 1..Len(DEFAULT_SUB_TAB_SUFFIXES) |->
                Url(normalised.host,
                    Append(normalised.path, DEFAULT_SUB_TAB_SUFFIXES[i]))]

(***************************************************************************)
(* Markdown.  A document is its sequence of lines; a line is a heading     *)
(* (level 1..6, text = the title) or a body line (level 0); len is the     *)
(* number of characters of the text.  A body line without text is a run   *)
(* of len white-space characters, 0 for an empty line.  Lines with text    *)
(* carry no leading or trailing white space.                               *)
(***************************************************************************)
Heading(l, title, n) == [level |-> l, text |-> title, len |-> n]
Body(text, n) == [level |-> 0, text |-> text, len |-> n]

MIN_CHUNK_LENGTH == 10
MIN_MARKDOWN_LENGTH == 50

\* characters of a line as written: "## Title" or the body text
LineLength(line) ==
    IF line.level > 0 THEN line.level + 1 + line.len ELSE line.len

IsBlank(line) == line.level = 0 /\ line.text = ""

\* lines.join('\n').trim(), as lines: blank lines at both ends are dropped
RECURSIVE TrimLeft(_)
TrimLeft(lines) ==
    IF lines # <<>> /\ IsBlank(Head(lines)) THEN TrimLeft(Tail(lines)) ELSE lines

RECURSIVE TrimRight(_)
TrimRight(lines) ==
    IF lines # <<>> /\ IsBlank(Last(lines))
    THEN TrimRight(SubSeq(lines, 1, Len(lines) - 1)) ELSE lines

Trim(lines) == TrimRight(TrimLeft(lines))

\* text.length of joined lines: the characters plus one newline between lines
TextLength(lines) ==
    IF lines = <<>> THEN 0
    ELSE SumSeq([i \in 1..Len(lines) |-> LineLength(lines[i])]) + (Len(lines) - 1)

\* markdown.trim().length
TrimmedLength(md) == TextLength(Trim(md))

(***************************************************************************)
(* chunker.ts                                                              *)
(***************************************************************************)
\* a flush without the length test
flushAlways(st) ==
    [st EXCEPT !.chunks = Append(@, [heading_path |-> st.headingStack,
                                    content |-> Trim(st.currentContent)]),
               !.currentContent = <<>>]

\* flush(): emits the buffer under the heading stack as it stands
flush(st) ==
    LET text == Trim(st.currentContent)
    IN [st EXCEPT
          !.chunks = IF TextLength(text) >= MIN_CHUNK_LENGTH
                     THEN Append(@, [heading_path |-> st.headingStack,
                                     content |-> text])
                     ELSE @,
          !.currentContent = <<>>]

\* headingStack.splice(level - 1, headingStack.length - (level - 1), title):
\* splice clamps its start to the length of the array
spliceHeading(headingStack, level, title) ==
    Append(SubSeq(headingStack, 1, Min(level - 1, Len(headingStack))), title)

\* a loop that sets the heading before it flushes
chunkLineLate(st, line) ==
    IF line.level > 0
    THEN flush([st EXCEPT
                  !.headingStack = spliceHeading(st.headingStack, line.level, line.text)])
    ELSE [st EXCEPT !.currentContent = Append(@, line)]

\* the body of the for loop, for one line
chunkLine(st, line) ==
    IF line.level > 0
    THEN [flush(st) EXCEPT
            !.headingStack = spliceHeading(st.headingStack, line.level, line.text)]
    ELSE [st EXCEPT !.currentContent = Append(@, line)]

RECURSIVE chunkLines(_, _)
chunkLines(st, lines) ==
    IF lines = <<>> THEN st
    ELSE chunkLines(chunkLine(st, Head(lines)), Tail(lines))

chunkMarkdown(markdown) ==
    flush(chunkLines([chunks |-> <<>>, headingStack |-> <<>>,
                      currentContent |-> <<>>], markdown)).chunks

(***************************************************************************)
(* db.ts.  Header values are strings, "" for null or undefined.            *)
(***************************************************************************)
\* a primary key that leaves the version out
keyByUrl(url, version) == <<url, "latest">>

\* PRIMARY KEY (url, version)
Key(url, version) == <<url, version>>

\* JSON.stringify / JSON.parse of a heading path
JsonStringify(path) == [json |-> path]
JsonParse(text) == text.json

\* an upsert that reports a write and makes none
upsertDocumentLost(docs, url, version, domain, title, markdown, etag, lastModified, ts) ==
    [documents |-> docs, changed |-> TRUE]

\* an upsert that never compares the etags
upsertDocumentAlways(docs, url, version, domain, title, markdown, etag, lastModified, ts) ==
    [documents |->
        Put(docs, Key(url, version),
            [url |-> url, version |-> version, domain |-> domain,
             title |-> title, markdown |-> markdown,
             etag |-> etag, last_modified |-> lastModified, timestamp |-> ts]),
     changed |-> TRUE]

\* upsertDocument: [documents, changed]
upsertDocument(docs, url, version, domain, title, markdown, etag, lastModified, ts) ==
    LET k == Key(url, version)
        existing == k \in DOMAIN docs
    IN IF existing /\ etag # "" /\ docs[k].etag = etag
       THEN [documents |-> docs, changed |-> FALSE]
       ELSE [documents |->
                Put(docs, k,
                    [url |-> url, version |-> version,
                     domain |-> IF existing THEN docs[k].domain ELSE domain,
                     title |-> title, markdown |-> markdown,
                     etag |-> etag, last_modified |-> lastModified,
                     timestamp |-> ts]),
             changed |-> TRUE]

\* trigger chunks_ai
chunks_ai(fts, row) ==
    fts \cup {[rowid |-> row.id, url |-> row.url, version |-> row.version,
               heading_path |-> row.heading_path, content |-> row.content]}

\* a store without the delete trigger
noTrigger(fts, rows) == fts

\* trigger chunks_ad, once per deleted row
chunks_ad(fts, rows) ==
    fts \ {[rowid |-> r.id, url |-> r.url, version |-> r.version,
            heading_path |-> r.heading_path, content |-> r.content] : r \in rows}

\* a replacement that deletes nothing
keepChunks(db, url, version) == db

\* DELETE FROM chunks WHERE url = ? AND version = ?, with its trigger
deleteChunks(db, url, version) ==
    LET gone == {r \in Range(db.chunks) : r.url = url /\ r.version = version}
        Keep(r) == r \notin gone
    IN [db EXCEPT !.chunks = SelectSeqBy(Keep, db.chunks),
                  !.chunks_fts = chunks_ad(db.chunks_fts, gone)]

\* insert.run(url, version, JSON.stringify(row.heading_path), row.content)
insertChunk(db, url, version, chunk) ==
    LET row == [id |-> db.nextChunkId, url |-> url, version |-> version,
                heading_path |-> JsonStringify(chunk.heading_path),
                content |-> chunk.content]
    IN [chunks |-> Append(db.chunks, row),
        chunks_fts |-> chunks_ai(db.chunks_fts, row),
        nextChunkId |-> db.nextChunkId + 1]

RECURSIVE insertRows(_, _, _, _)
insertRows(db, url, version, rows) ==
    IF rows = <<>> THEN db
    ELSE insertRows(insertChunk(db, url, version, Head(rows)), url, version, Tail(rows))

\* insertMany = db.transaction(...): all rows, or none when a row's insert throws
\* (failAt = the row whose insert throws, 0 for none)
insertMany(db, url, version, rows, failAt) ==
    IF failAt \in 1..Len(rows) THEN db ELSE insertRows(db, url, version, rows)

\* upsertChunks: the DELETE statement runs and commits on its own, then the
\* insertMany transaction; [db, threw]
upsertChunks(db, url, version, newChunks, failAt) ==
    [db |-> insertMany(deleteChunks(db, url, version), url, version, newChunks, failAt),
     threw |-> failAt \in 1..Len(newChunks)]

Db == [chunks |-> chunks, chunks_fts |-> chunks_fts, nextChunkId |-> nextChunkId]

\* the chunk rows of (url, version) as the chunker's records, in rowid order
chunksOf(rows, url, version) ==
    LET Mine(r) == r.url = url /\ r.version = version
        mine == SelectSeqBy(Mine, rows)
    IN [i \in 1..Len(mine) |->
           [heading_path |-> JsonParse(mine[i].heading_path),
            content |-> mine[i].content]]

\* the index entries of (url, version)
ftsOf(fts, url, version) == {e \in fts : e.url = url /\ e.version = version}

\* getDocument / getCacheHeaders: the row exists
hasDocument(docs, url, version) == Key(url, version) \in DOMAIN docs

(***************************************************************************)
(* searchDocuments.  A query is a sequence of words and runs of white      *)
(* space (" "); the words of the model are single FTS5 tokens.  A body     *)
(* line Body(w, n) is n characters of text holding the token w once.       *)
(***************************************************************************)
SEARCH_LIMIT == 20

\* query.trim().split(/\s+/).filter(Boolean).map(quote): the phrases of the
\* MATCH expression, "" (no phrase) for a query without words
ftsQuery(query) ==
    LET IsWord(x) == x # " " IN SelectSeq(query, IsWord)

\* the tokens FTS5 indexed for one column of an entry, with repetitions
tokensOfEntry(e) ==
    <<"https", e.url.host>> \o e.url.path \o <<e.version>>
        \o JsonParse(e.heading_path)
        \o [i \in 1..Len(e.content) |-> e.content[i].text]

\* occurrences of a term in an entry
frequency(e, term) ==
    LET toks == tokensOfEntry(e)
    IN Cardinality({i \in 1..Len(toks) : toks[i] = term})

\* a MATCH that takes the phrases as alternatives
matchesSome(e, terms) == \E i \in 1..Len(terms) : frequency(e, terms[i]) > 0

\* chunks_fts MATCH ?: phrases separated by spaces are an implicit AND
matches(e, terms) == \A i \in 1..Len(terms) : frequency(e, terms[i]) > 0

\* -bm25(chunks_fts), as far as the model keeps it: bm25 ranks an entry by the
\* frequency of the phrases in it
score(e, terms) == SumSeq([i \in 1..Len(terms) |-> frequency(e, terms[i])])

\* a result list in the order of the rowids
byRowid(rows) ==
    LET RECURSIVE order(_)
        order(rest) ==
            IF rest = {} THEN <<>>
            ELSE LET first == CHOOSE r \in rest : \A o \in rest : r.id <= o.id
                 IN <<first>> \o order(rest \ {first})
    IN order(rows)

\* ORDER BY score DESC; rows of equal score in the order of the rowids
orderByScoreDesc(rows) ==
    LET RECURSIVE order(_)
        order(rest) ==
            IF rest = {} THEN <<>>
            ELSE LET best == CHOOSE r \in rest : \A o \in rest :
                                 \/ r.score > o.score
                                 \/ r.score = o.score /\ r.id <= o.id
                 IN <<best>> \o order(rest \ {best})
    IN order(rows)

\* a statement without the version clause
anyVersion(c, version) == TRUE
\* AND c.version = ?, which the statement holds when a version is given
versionClause(c, version) == version # "" => c.version = version

\* searchDocuments(query, version): version "" is undefined
searchDocuments(db, docs, query, version) ==
    LET terms == ftsQuery(query)
        hits == {i \in 1..Len(db.chunks) :
                   /\ \E e \in db.chunks_fts :
                          e.rowid = db.chunks[i].id /\ matches(e, terms)
                   /\ versionClause(db.chunks[i], version)}
        entryOf(c) == CHOOSE e \in db.chunks_fts : e.rowid = c.id
        selected ==
            {[id |-> db.chunks[i].id,
              url |-> db.chunks[i].url,
              version |-> db.chunks[i].version,
              title |-> IF hasDocument(docs, db.chunks[i].url, db.chunks[i].version)
                        THEN docs[Key(db.chunks[i].url, db.chunks[i].version)].title
                        ELSE db.chunks[i].url,
              heading_path |-> JsonParse(db.chunks[i].heading_path),
              content |-> db.chunks[i].content,
              score |-> score(entryOf(db.chunks[i]), terms)] : i \in hits}
    IN IF terms = <<>> THEN <<>>
       ELSE Slice(orderByScoreDesc(selected), SEARCH_LIMIT)

(***************************************************************************)
(* robots.ts.  A policy is what robots-parser answers for the crawler's    *)
(* agent: the disallowed path prefixes and the Crawl-delay directives, in  *)
(* ms (the directive times 1000), -1 for a directive that is absent.       *)
(***************************************************************************)
DEFAULT_CRAWL_DELAY_MS == 500

NoPolicy == [present |-> FALSE, disallow |-> {}, delayUA |-> -1, delayAny |-> -1]

IsPrefix(p, q) == Len(p) <= Len(q) /\ SubSeq(q, 1, Len(p)) = p

\* a check that lets every URL pass
allowAll(policy, url) == TRUE
\* robots.isAllowed(url, USER_AGENT) !== false, and true for a null policy
allowedBy(policy, url) ==
    ~policy.present \/ ~(\E p \in policy.disallow : IsPrefix(p, Pathname(url)))

\* getRobots, after the fetch: what it stores for a response
\* (response = [ok, policy]; ok is false for a failed fetch or a non-2xx status)
cachedPolicy(response) == IF response.ok THEN response.policy ELSE NoPolicy

\* a cache that holds the default for every hostname
defaultDelay(response) == DEFAULT_CRAWL_DELAY_MS

\* getRobots: what it stores in delayCache for a response
cachedDelay(response) ==
    IF ~response.ok THEN DEFAULT_CRAWL_DELAY_MS
    ELSE LET crawlDelay ==
                 IF response.policy.delayUA # -1 THEN response.policy.delayUA
                 ELSE IF response.policy.delayAny # -1 THEN response.policy.delayAny
                 ELSE DEFAULT_CRAWL_DELAY_MS
         IN Max(crawlDelay, DEFAULT_CRAWL_DELAY_MS)

(***************************************************************************)
(* crawler.ts shouldCrawl.  probe = the HEAD response [ok, etag,           *)
(* last_modified]; ok is false for a network error or a non-2xx status.    *)
(***************************************************************************)
\* a comparison that lets an equal Last-Modified date overrule the ETags
shouldCrawlByDate(docs, url, version, probe) ==
    IF ~hasDocument(docs, url, version) THEN TRUE
    ELSE LET cached == docs[Key(url, version)]
         IN IF cached.etag = "" /\ cached.last_modified = "" THEN TRUE
            ELSE IF ~probe.ok THEN TRUE
            ELSE IF probe.last_modified # "" /\ cached.last_modified # ""
                 THEN probe.last_modified # cached.last_modified
            ELSE IF probe.etag # "" /\ cached.etag # ""
                 THEN probe.etag # cached.etag
            ELSE TRUE

shouldCrawl(docs, url, version, probe) ==
    IF ~hasDocument(docs, url, version) THEN TRUE
    ELSE LET cached == docs[Key(url, version)]
         IN IF cached.etag = "" /\ cached.last_modified = "" THEN TRUE
            ELSE IF ~probe.ok THEN TRUE
            ELSE IF probe.etag # "" /\ cached.etag # ""
                 THEN probe.etag # cached.etag
            ELSE IF probe.last_modified # "" /\ cached.last_modified # ""
                 THEN probe.last_modified # cached.last_modified
            ELSE TRUE

(***************************************************************************)
(* The remote site a run meets: args.site maps a normalised URL to the     *)
(* page served there; every other URL serves an empty page.                *)
(***************************************************************************)
Page(md, links, etag, lastmod) ==
    [md |-> md, links |-> links, etag |-> etag, last_modified |-> lastmod]

NotFound == Page(<<>>, <<>>, "", "")

SitePage(u) == GetOr(args.site, Normalise(u), NotFound)

\* what a page handle holds after page.goto(u) succeeded
Loaded(u) == [url |-> u, md |-> SitePage(u).md, links |-> SitePage(u).links]
\* a fresh page handle (about:blank)
Blank == [url |-> NoUrl, md |-> <<>>, links |-> <<>>]

\* the answer to a HEAD request for u; fails when the environment says so
HeadProbe(u, fails) ==
    [ok |-> ~fails,
     etag |-> IF fails THEN "" ELSE SitePage(u).etag,
     last_modified |-> IF fails THEN "" ELSE SitePage(u).last_modified]

\* the environment may still inject a failure
FaultChoices == IF faults < MaxFaults THEN {FALSE, TRUE} ELSE {FALSE}
Charge(f) == faults' = IF f THEN faults + 1 ELSE faults

(***************************************************************************)
(* visitPage.  A visit is a task [pc, url, page, md, wake, delayed]:       *)
(*   "robots"      awaiting the robots.txt fetch of isAllowed              *)
(*   "delay"       in enforceCrawlDelay, getRobots answered                *)
(*   "sleep"       in enforceCrawlDelay, awaiting sleep(delay - elapsed)   *)
(*   "shouldCrawl" enforceCrawlDelay returned                              *)
(*   "goto"        page.goto issued                                        *)
(*   "content"     navigation done, content not yet read                   *)
(*   "ret"         visitPage returned md to its caller                     *)
(* md is [ok, lines]: ok is false for null.                                *)
(***************************************************************************)
Null == [ok |-> FALSE, lines |-> <<>>]
Markdown(lines) == [ok |-> TRUE, lines |-> lines]
\* a push that does not look at the visit's result
pushAlways(md) == TRUE
\* if (markdown): neither null nor the empty string
Truthy(md) == md.ok /\ md.lines # <<>>

IdleTask == [pc |-> "idle", url |-> NoUrl, page |-> 0, md |-> Null,
             wake |-> 0, delayed |-> FALSE]

InVisit(t) == tasks[t].pc \in {"robots", "delay", "sleep", "shouldCrawl", "goto", "content"}

\* The call visitPage(page, url, version) up to its first suspension:
\* isAllowed -> getRobots looks the hostname up and fetches on a miss.
EnterVisit(t, url, page) ==
    LET hit == url.host \in DOMAIN robotsCache
        base == [IdleTask EXCEPT !.url = url, !.page = page]
    IN /\ tasks' = [tasks EXCEPT ![t] =
                      IF ~hit THEN [base EXCEPT !.pc = "robots"]
                      ELSE IF allowedBy(robotsCache[url.host], url)
                           THEN [base EXCEPT !.pc = "delay"]
                           ELSE [base EXCEPT !.pc = "ret"]]
       /\ robotsFetches' = IF hit THEN robotsFetches
                           ELSE Put(robotsFetches, url.host,
                                    GetOr(robotsFetches, url.host, 0) + 1)
       /\ attempts' = Append(attempts, url)

\* const CONCURRENCY = 3; pLimit(CONCURRENCY)
CONCURRENCY == 3

\* p-limit holds a function it can start
StartPending ==
    /\ mode = "component" /\ runState = "running"
    /\ \E i \in DOMAIN tasks : tasks[i].pc = "queued"
    /\ Cardinality({j \in DOMAIN tasks :
                       tasks[j].pc \notin {"queued", "capped", "dup", "done"}}) < CONCURRENCY

\* no continuation is ready to run: the event loop takes the next event
Settled ==
    /\ \A t \in DOMAIN tasks : tasks[t].pc \notin {"delay", "shouldCrawl", "ret"}
    /\ ~StartPending

\* getRobots after its fetch, then the rest of isAllowed
RobotsResponse(t) ==
    /\ tasks[t].pc = "robots" /\ Settled
    /\ \E f \in FaultChoices :
         LET response == IF f THEN [ok |-> FALSE, policy |-> NoPolicy] ELSE args.robots
             hostname == tasks[t].url.host
         IN /\ Charge(f)
            /\ robotsCache' = Put(robotsCache, hostname, cachedPolicy(response))
            /\ delayCache' = Put(delayCache, hostname, cachedDelay(response))
            /\ tasks' = [tasks EXCEPT ![t].pc =
                           IF allowedBy(cachedPolicy(response), tasks[t].url)
                           THEN "delay" ELSE "ret"]
    /\ UNCHANGED <<mode, args, runState, crawlVars, pages, lastRequestTime, now,
                   storeVars, robotsFetches, released, navLog, attempts>>

\* lastRequestTime.set(hostname, Date.now()), and the history of it
Release(hostname, t) ==
    /\ lastRequestTime' = Put(lastRequestTime, hostname, now')
    /\ released' = Put(released, hostname, Append(GetOr(released, hostname, <<>>), now'))
    /\ tasks' = [tasks EXCEPT ![t].pc = "shouldCrawl", ![t].delayed = TRUE]

\* enforceCrawlDelay from its reads to the sleep, or to its end when it need not sleep
EnforceDelay(t) ==
    /\ tasks[t].pc = "delay"
    /\ LET hostname == tasks[t].url.host
           delay == GetOr(delayCache, hostname, DEFAULT_CRAWL_DELAY_MS)
           last == GetOr(lastRequestTime, hostname, 0)
           elapsed == now - last
       IN IF elapsed < delay
          THEN /\ tasks' = [tasks EXCEPT ![t].pc = "sleep",
                                         ![t].wake = now + (delay - elapsed)]
               /\ UNCHANGED <<lastRequestTime, released, now>>
          ELSE /\ now' = now
               /\ Release(hostname, t)
    /\ UNCHANGED <<mode, args, runState, crawlVars, pages, robotsCache, delayCache,
                   storeVars, faults, robotsFetches, navLog, attempts>>

\* the timer of sleep() fires, not before it is due; enforceCrawlDelay ends
Wake(t) ==
    /\ tasks[t].pc = "sleep" /\ Settled
    /\ now' = Max(now, tasks[t].wake)
    /\ Release(tasks[t].url.host, t)
    /\ UNCHANGED <<mode, args, runState, crawlVars, pages, robotsCache, delayCache,
                   storeVars, faults, robotsFetches, navLog, attempts>>

\* a skip that hands back nothing
cachedNothing(docs, url, version) == Null
\* getDocument(url, version)?.markdown ?? null
cachedMarkdown(docs, url, version) ==
    IF hasDocument(docs, url, version)
    THEN Markdown(docs[Key(url, version)].markdown) ELSE Null

\* shouldCrawl with its HEAD probe; on false the stored Markdown is returned
ShouldCrawl(t) ==
    /\ tasks[t].pc = "shouldCrawl"
    /\ \E f \in FaultChoices :
         LET url == tasks[t].url
             fresh == shouldCrawl(documents, url, args.version, HeadProbe(url, f))
             probed == /\ hasDocument(documents, url, args.version)
                       /\ LET cached == documents[Key(url, args.version)]
                          IN cached.etag # "" \/ cached.last_modified # ""
         IN /\ f => probed
            /\ Charge(f)
            /\ tasks' = [tasks EXCEPT ![t] =
                  IF fresh THEN [@ EXCEPT !.pc = "goto"]
                  ELSE [@ EXCEPT !.pc = "ret",
                                 !.md = cachedMarkdown(documents, url, args.version)]]
    /\ UNCHANGED <<mode, args, runState, crawlVars, pages, robotsVars, now,
                   storeVars, navLog, attempts>>

\* page.goto(url) settles: the handle holds the page, or the navigation timed out
Goto(t) ==
    /\ tasks[t].pc = "goto" /\ Settled
    /\ navLog' = navLog \cup {[url |-> tasks[t].url, page |-> tasks[t].page,
                              delayed |-> tasks[t].delayed]}
    /\ \E f \in FaultChoices :
         /\ Charge(f)
         /\ IF f
            THEN /\ tasks' = [tasks EXCEPT ![t].pc = "ret", ![t].md = Null]
                 /\ UNCHANGED pages
            ELSE /\ tasks' = [tasks EXCEPT ![t].pc = "content"]
                 /\ pages' = [pages EXCEPT ![tasks[t].page] = Loaded(tasks[t].url)]
    /\ UNCHANGED <<mode, args, runState, crawlVars, robotsVars, now,
                   storeVars, attempts>>

\* a visit that keeps every page
neverShort(markdown) == FALSE
\* markdown.trim().length < 50
tooShort(markdown) == TrimmedLength(markdown) < MIN_MARKDOWN_LENGTH

\* page.content() to the end of visitPage: extraction, the length check, the
\* HEAD request for the cache headers, upsertDocument, chunkMarkdown, upsertChunks
Content(t) ==
    /\ tasks[t].pc = "content" /\ Settled
    /\ LET url == tasks[t].url
           doc == pages[tasks[t].page]
           markdown == doc.md
       IN IF tooShort(markdown)
          THEN /\ tasks' = [tasks EXCEPT ![t].pc = "ret", ![t].md = Null]
               /\ UNCHANGED <<storeVars, faults>>
          ELSE \E headFails \in FaultChoices, insertFails \in FaultChoices :
                 LET head == HeadProbe(url, headFails)
                     up == upsertDocument(documents, url, args.version, url.host,
                                          doc.url, markdown, head.etag,
                                          head.last_modified, now)
                     newChunks == chunkMarkdown(markdown)
                     failAt == IF insertFails THEN Len(newChunks) ELSE 0
                     res == IF Len(newChunks) > 0
                            THEN upsertChunks(Db, url, args.version, newChunks, failAt)
                            ELSE [db |-> Db, threw |-> FALSE]
                 IN /\ ~(headFails /\ insertFails)
                    /\ insertFails => Len(newChunks) > 0
                    /\ Charge(headFails \/ insertFails)
                    /\ documents' = up.documents
                    /\ chunks' = res.db.chunks
                    /\ chunks_fts' = res.db.chunks_fts
                    /\ nextChunkId' = res.db.nextChunkId
                    /\ lastOp' = [op |-> "visit", url |-> url, version |-> args.version,
                                  changed |-> up.changed, threw |-> res.threw,
                                  markdown |-> markdown,
                                  before |-> chunksOf(chunks, url, args.version),
                                  ftsBefore |-> ftsOf(chunks_fts, url, args.version)]
                    /\ tasks' = [tasks EXCEPT ![t].pc = "ret",
                                   ![t].md = IF res.threw THEN Null ELSE Markdown(markdown)]
    /\ UNCHANGED <<mode, args, runState, crawlVars, pages, robotsVars, now,
                   navLog, attempts>>

\* Date.now() when the process starts: later than any crawl delay
START_TIME == 4 * DEFAULT_CRAWL_DELAY_MS


(***************************************************************************)
(* Inputs: URLs, pages, sites, policies                                    *)
(***************************************************************************)
EmptyMap == [k \in {} |-> 0]

uA == Url("h", <<"docs", "a">>)
uASlash == Url("h", <<"docs", "a", "">>)
uB == Url("h", <<"docs", "b">>)
uAUsage == Url("h", <<"docs", "a", "usage">>)
uX == Url("x", <<"docs", "a">>)

\* "# Top" and a body of 60 characters: one chunk
MdGuide == <<Heading(1, "Top", 3), Body("intro", 60)>>
\* two sections, two chunks
MdGuide2 == <<Heading(1, "Top", 3), Body("intro2", 70), Body("", 0),
              Heading(2, "Sub", 3), Body("more", 30)>>
\* headings only, 67 characters: no chunk
MdHeadings == <<Heading(1, "Release notes", 13), Heading(2, "Version two point zero", 22),
                Heading(2, "Version one point zero", 22)>>
\* "Short."
MdShort == <<Body("Short.", 6)>>
\* one line of 49 characters between blank lines
MdAlmost == <<Body("", 0), Body("almost", 49), Body("", 0), Body("", 0)>>
\* one line of 50 characters
MdJust == <<Body("just", 50)>>

PolicyOpen == [present |-> TRUE, disallow |-> {}, delayUA |-> -1, delayAny |-> -1]
PolicyStrict == [present |-> TRUE, disallow |-> {<<"docs", "b">>},
                 delayUA |-> -1, delayAny |-> 2 * DEFAULT_CRAWL_DELAY_MS]

RobotsResponses == {[ok |-> FALSE, policy |-> NoPolicy],
                    [ok |-> TRUE, policy |-> PolicyOpen],
                    [ok |-> TRUE, policy |-> PolicyStrict]}

\* A and B link to each other, A also to itself with a slash and off the host
SiteLoop == (uA :> Page(MdGuide, <<uB, uASlash, uX>>, "e1", ""))
         @@ (uB :> Page(MdGuide2, <<uA, uB>>, "", "t1"))
\* A has one sub-tab page, and B is too short to keep
SiteTabs == (uA :> Page(MdGuide, <<uAUsage, uB>>, "", ""))
         @@ (uAUsage :> Page(MdHeadings, <<uA>>, "e2", ""))
         @@ (uB :> Page(MdShort, <<uA>>, "", ""))

(***************************************************************************)
(* sitemap.ts.  The web maps the URL of a sitemap file to what fetch does  *)
(* for it: it throws (network error, timeout, invalid URL), or answers     *)
(* with a status and a text, of which the model keeps whether it holds     *)
(* "<sitemapindex", whether it holds "<urlset", and its <loc> values.      *)
(* collected is the Set in insertion order.                                *)
(***************************************************************************)
MAX_SITEMAP_URLS == 5000
MAX_SITEMAP_DEPTH == 3

SITEMAP_PATHS == <<<<"sitemap.xml">>, <<"sitemap_index.xml">>,
                   <<"sitemap", "sitemap.xml">>>>

\* a string new URL() and fetch() reject
MalformedUrl == Url("", <<"::">>)

Throws == [kind |-> "throw"]
Answer(ok, index, urlset, locs) ==
    [kind |-> "response", ok |-> ok, index |-> index, urlset |-> urlset,
     locs |-> locs]

\* fetch(url): a URL the web does not serve, or an invalid one, throws
fetch(web, url) == IF url \in DOMAIN web THEN web[url] ELSE Throws

\* one path segment holds the text f
ContainsText(seg, f) == seg = f \/ <<seg, f>> \in {<<"docs", "doc">>}

\* pathname.includes(f); f holds no slash
PathIncludes(u, f) ==
    f = "" \/ \E i \in 1..Len(Pathname(u)) : ContainsText(Pathname(u)[i], f)

\* the loop over the <loc> values of a <urlset>: malformed URLs and URLs the
\* filter rejects are skipped
addPageUrls(collected, pageUrls, pathFilter) ==
    LET Passes(u) ==
            /\ u # MalformedUrl
            /\ pathFilter = "" \/ PathIncludes(u, pathFilter)
    IN Dedup(collected \o SelectSeqBy(Passes, pageUrls))

\* a fetch whose exception leaves the function
rethrown(collected) == [collected |-> collected, raised |-> TRUE]

\* catch { return; }
caught(collected) == [collected |-> collected, raised |-> FALSE]

\* a recursion that goes one level further
tooDeepLate(depth) == depth > MAX_SITEMAP_DEPTH + 1
\* depth > 3
tooDeep(depth) == depth > MAX_SITEMAP_DEPTH

\* fetchAndParseSitemap(url, collected, pathFilter, depth):
\* [collected, raised], and fetched: the calls of fetch it made, in order
RECURSIVE fetchAndParseSitemap(_, _, _, _, _)
fetchAndParseSitemap(web, url, collected, pathFilter, depth) ==
    LET res == fetch(web, url)
        this == <<[url |-> url, depth |-> depth]>>
        RECURSIVE children(_, _)
        children(acc, childUrls) ==
            IF childUrls = <<>> \/ acc.raised THEN acc
            ELSE LET sub == fetchAndParseSitemap(web, Head(childUrls), acc.collected,
                                                 pathFilter, depth + 1)
                 IN children([collected |-> sub.collected, raised |-> sub.raised,
                              fetched |-> acc.fetched \o sub.fetched],
                             Tail(childUrls))
        done(calls) == [collected |-> collected, raised |-> FALSE, fetched |-> calls]
    IN IF tooDeep(depth) \/ Len(collected) >= MAX_SITEMAP_URLS THEN done(<<>>)
       ELSE IF res.kind = "throw" THEN [fetched |-> this] @@ caught(collected)
       ELSE IF ~res.ok THEN done(this)
       ELSE IF res.index THEN children(done(this), res.locs)
       ELSE IF res.urlset
            THEN [collected |-> addPageUrls(collected, res.locs, pathFilter),
                  raised |-> FALSE, fetched |-> this]
       ELSE done(this)

\* discoverSitemapUrls for a site whose first sitemap is one <urlset> of locs
discoverSitemapUrls(locs, pathFilter) ==
    Slice(addPageUrls(<<>>, locs, pathFilter), MAX_SITEMAP_URLS)

(***************************************************************************)
(* runCrawler (breadth-first mode).  A glob is its sequence of segments,   *)
(* <<>> for undefined.                                                     *)
(***************************************************************************)
RECURSIVE Concat(_)
Concat(segs) == IF segs = <<>> THEN "" ELSE Head(segs) \o Concat(Tail(segs))

\* urlGlob.replace(/\*\*/g, '').replace(/\//g, '')
\* a filter text that every pathname contains
stripAll(urlGlob) == ""

stripGlob(urlGlob) ==
    LET NotStars(x) == x # "**" IN Concat(SelectSeqBy(NotStars, urlGlob))

\* chromium.launch, sitemap seeding, the start URL, browser.newPage
RunCrawlerStart ==
    /\ mode = "bfs" /\ runState = "start"
    /\ IF ~args.launch
       THEN /\ runState' = "raised"
            /\ UNCHANGED <<queue>>
       ELSE LET pathFilter == stripGlob(args.urlGlob)
                sitemapUrls == discoverSitemapUrls(args.sitemap, pathFilter)
                Seed(u) == <<u>> \o (IF args.expandTabs THEN expandSubTabUrls(u) ELSE <<>>)
                seeded == FlatMap(Seed, Slice(sitemapUrls, args.maxPages * 5))
            IN /\ runState' = "running"
               /\ queue' = <<args.start>> \o seeded
                           \o (IF args.expandTabs THEN expandSubTabUrls(args.start) ELSE <<>>)
    /\ UNCHANGED <<mode, args, visited, crawledUrls, tasks, pages, robotsVars, now,
                   storeVars, faults, navLog, attempts>>

\* visited.add(normalised)
claimNothing(seen, normalised) == seen
claim(seen, normalised) == seen \cup {normalised}

\* a loop that never looks at the success count
capOff == TRUE
\* crawledUrls.length < maxPages
underCap == Len(crawledUrls) < args.maxPages

\* a loop that reads the head of the queue and leaves it there
peek(q) == [url |-> Head(q), rest |-> q]
\* a loop that takes the newest entry
pop(q) == [url |-> Last(q), rest |-> SubSeq(q, 1, Len(q) - 1)]
\* queue.shift()
shift(q) == [url |-> Head(q), rest |-> Tail(q)]

\* the head of the while loop down to the call of visitPage
BfsDequeue ==
    /\ mode = "bfs" /\ runState = "running" /\ tasks[0].pc = "idle"
    /\ queue # <<>> /\ underCap
    /\ LET url == shift(queue).url
           normalised == Normalise(url)
       IN /\ queue' = shift(queue).rest
          /\ IF normalised \in visited
             THEN UNCHANGED <<visited, tasks, robotsFetches, attempts>>
             ELSE /\ visited' = claim(visited, normalised)
                  /\ IF args.urlGlob # <<>> /\ ~PathIncludes(url, stripGlob(args.urlGlob))
                     THEN UNCHANGED <<tasks, robotsFetches, attempts>>
                     ELSE EnterVisit(0, url, 0)
    /\ UNCHANGED <<mode, args, runState, crawledUrls, pages, robotsCache, delayCache,
                   lastRequestTime, released, now, storeVars, faults, navLog>>

\* after visitPage: the success list, the sub-tabs, the links of the page handle
BfsAfterVisit ==
    /\ mode = "bfs" /\ runState = "running" /\ tasks[0].pc = "ret"
    /\ LET url == tasks[0].url
           normalised == Normalise(url)
           Unseen(u) == u \notin visited
           SameHostUnseen(link) ==
               link.host = args.start.host /\ Normalise(Href(link)) \notin visited
           links == pages[0].links
       IN IF Truthy(tasks[0].md)
          THEN /\ crawledUrls' = Append(crawledUrls, url)
               /\ queue' = queue
                    \o (IF args.expandTabs
                        THEN SelectSeqBy(Unseen, expandSubTabUrls(normalised)) ELSE <<>>)
                    \o [i \in 1..Len(SelectSeqBy(SameHostUnseen, links)) |->
                           Href(SelectSeqBy(SameHostUnseen, links)[i])]
          ELSE UNCHANGED <<crawledUrls, queue>>
    /\ tasks' = [tasks EXCEPT ![0] = IdleTask]
    /\ UNCHANGED <<mode, args, runState, visited, pages, robotsVars, now,
                   storeVars, faults, navLog, attempts>>

\* the loop ends; page.close, browser.close, return crawledUrls
BfsReturn ==
    /\ mode = "bfs" /\ runState = "running" /\ tasks[0].pc = "idle"
    /\ queue = <<>> \/ ~underCap
    /\ runState' = "returned"
    /\ UNCHANGED <<mode, args, crawlVars, tasks, pages, robotsVars, now,
                   storeVars, faults, navLog, attempts>>

\* two pages that link to each other, and nothing else
SiteMutual == (uA :> Page(MdGuide, <<uB>>, "", ""))
           @@ (uB :> Page(MdGuide2, <<uA>>, "", ""))

\* crawlSite from A with maxPages = 5 on the two-page site, without a sitemap
MutualArgs ==
    [start : {uA}, version : {"latest"}, maxPages : {5},
     urlGlob : {<<>>}, expandTabs : BOOLEAN,
     sitemap : {<<>>}, site : {SiteMutual},
     robots : {[ok |-> FALSE, policy |-> NoPolicy], [ok |-> TRUE, policy |-> PolicyOpen]},
     launch : {TRUE}]

BfsArgs ==
    [start : {uA, uASlash}, version : {"latest"}, maxPages : 1..MaxPagesBound,
     urlGlob : {<<>>, <<"docs", "**">>}, expandTabs : BOOLEAN,
     sitemap : {<<>>, <<uB, uA, uB, uX>>}, site : {SiteLoop, SiteTabs},
     robots : RobotsResponses, launch : BOOLEAN]
    \cup MutualArgs

\* the store as the schema creates it
EmptyStore ==
    [documents |-> EmptyMap,
     db |-> [chunks |-> <<>>, chunks_fts |-> {}, nextChunkId |-> 1]]

\* the store file holds what an earlier process left
Holds(store) ==
    /\ documents = store.documents
    /\ chunks = store.db.chunks
    /\ chunks_fts = store.db.chunks_fts
    /\ nextChunkId = store.db.nextChunkId

\* the module state of a process that has made no request
NoRequests ==
    /\ runState = "start"
    /\ queue = <<>> /\ visited = {} /\ crawledUrls = <<>>
    /\ robotsCache = EmptyMap /\ delayCache = EmptyMap /\ lastRequestTime = EmptyMap
    /\ now = START_TIME
    /\ faults = 0
    /\ robotsFetches = EmptyMap /\ released = EmptyMap
    /\ navLog = {} /\ attempts = <<>>

\* no request made, on an empty store
Loaded0 == NoRequests /\ Holds(EmptyStore)

InitCommon == Loaded0 /\ lastOp = [op |-> "none"]

InitBfs ==
    /\ mode = "bfs"
    /\ args \in BfsArgs
    /\ tasks = [t \in {0} |-> IdleTask]
    /\ pages = [h \in {0} |-> Blank]
    /\ InitCommon

NextBfs ==
    \/ RunCrawlerStart
    \/ BfsDequeue
    \/ BfsAfterVisit
    \/ BfsReturn
    \/ \E t \in DOMAIN tasks : RobotsResponse(t)
    \/ \E t \in DOMAIN tasks : EnforceDelay(t)
    \/ \E t \in DOMAIN tasks : Wake(t)
    \/ \E t \in DOMAIN tasks : ShouldCrawl(t)
    \/ \E t \in DOMAIN tasks : Goto(t)
    \/ \E t \in DOMAIN tasks : Content(t)

SpecBfs == InitBfs /\ [][NextBfs]_vars

(***************************************************************************)
(* A breadth-first run over a site that an earlier run has crawled in part *)
(***************************************************************************)
uC == Url("h", <<"docs", "c">>)

\* A links to B and C; B and C link nowhere
SiteFan == (uA :> Page(MdGuide, <<uB, uC>>, "", ""))
        @@ (uB :> Page(MdGuide2, <<>>, "", "t1"))
        @@ (uC :> Page(MdGuide, <<>>, "e1", ""))

\* what an earlier crawl of B left in the store
CrawledB ==
    [documents |-> upsertDocument(EmptyMap, uB, "latest", uB.host, uB, MdGuide2,
                                  "", "t1", START_TIME).documents,
     db |-> upsertChunks(EmptyStore.db, uB, "latest", chunkMarkdown(MdGuide2), 0).db]

RecrawlArgs ==
    [start : {uA, uB}, version : {"latest"}, maxPages : {1, 3},
     urlGlob : {<<>>}, expandTabs : {FALSE}, sitemap : {<<>>},
     site : {SiteFan}, robots : RobotsResponses, launch : {TRUE}]

InitRecrawl ==
    /\ mode = "bfs"
    /\ args \in RecrawlArgs
    /\ tasks = [t \in {0} |-> IdleTask]
    /\ pages = [h \in {0} |-> Blank]
    /\ NoRequests /\ Holds(CrawledB)
    /\ lastOp = [op |-> "none"]

SpecRecrawl == InitRecrawl /\ [][NextBfs]_vars

(***************************************************************************)
(* Breadth-first runs that start inside or outside the path filter, over   *)
(* sitemaps that list pages of the host and of another host                *)
(***************************************************************************)
uGuide == Url("h", <<"guide">>)

\* the guide links into /docs; A links back, to B and off the host; B to A
SiteSeed == (uGuide :> Page(MdGuide, <<uA, uB>>, "", ""))
         @@ (uA :> Page(MdGuide, <<uB, uGuide, uX>>, "", ""))
         @@ (uB :> Page(MdGuide2, <<uA, uB>>, "", ""))
         @@ (uX :> Page(MdGuide, <<>>, "", ""))

SeedArgs ==
    [start : {uA, uGuide}, version : {"latest"}, maxPages : {3},
     urlGlob : {<<>>, <<"docs", "**">>}, expandTabs : BOOLEAN,
     sitemap : {<<>>, <<uB, uA>>, <<uX, uGuide>>}, site : {SiteSeed},
     robots : {[ok |-> FALSE, policy |-> NoPolicy]}, launch : {TRUE}]

InitSeed ==
    /\ mode = "bfs"
    /\ args \in SeedArgs
    /\ tasks = [t \in {0} |-> IdleTask]
    /\ pages = [h \in {0} |-> Blank]
    /\ InitCommon

SpecSeed == InitSeed /\ [][NextBfs]_vars

(***************************************************************************)
(* Breadth-first runs to their end.  The loop of runCrawler is straight    *)
(* synchronous code between two awaits of visitPage: once visitPage has    *)
(* settled the event loop resumes the function, which runs to the next     *)
(* visitPage or to the return.  Nothing is assumed here about the requests *)
(* a visit makes.                                                          *)
(***************************************************************************)
TermArgs ==
    [start : {uA}, version : {"latest"}, maxPages : {1, 5},
     urlGlob : {<<>>}, expandTabs : BOOLEAN,
     sitemap : {<<>>, <<uB, uA, uB, uX>>}, site : {SiteLoop, SiteTabs},
     robots : {[ok |-> FALSE, policy |-> NoPolicy]}, launch : {TRUE}]
    \cup MutualArgs

InitTerm ==
    /\ mode = "bfs"
    /\ args \in TermArgs
    /\ tasks = [t \in {0} |-> IdleTask]
    /\ pages = [h \in {0} |-> Blank]
    /\ InitCommon

SpecTerm ==
    /\ InitTerm /\ [][NextBfs]_vars
    /\ WF_vars(BfsDequeue) /\ WF_vars(BfsAfterVisit) /\ WF_vars(BfsReturn)

(***************************************************************************)
(* crawlComponentDocs (component mode).  Page handles 0..CONCURRENCY-1 are *)
(* the pool of phase 2, handle CONCURRENCY is the page of phase 1.  The    *)
(* tasks are the functions handed to limit(), task i for queue entry i+1;  *)
(* on top of the visit's positions a task is "queued" (held by p-limit),   *)
(* or ended: "capped" (page cap met), "dup" (already visited), "done".     *)
(***************************************************************************)
uIdx == Url("h", <<"components", "">>)
uBtn == Url("h", <<"components", "button">>)
uBtnIndex == Url("h", <<"components", "button", "index">>)
uBtnUsage == Url("h", <<"components", "button", "usage">>)
uBtnApi == Url("h", <<"components", "button", "api">>)
uCardExamples == Url("h", <<"components", "card", "examples">>)
uDeep == Url("h", <<"components", "layouts", "flex", "advanced">>)
uOffHost == Url("x", <<"components", "button">>)
uCard == Url("h", <<"components", "card">>)

\* links.flatMap(...) for one href: the component URL it stands for, if any
componentUrlOf(indexUrl, href) ==
    LET indexBasePath == StripSlash(Pathname(indexUrl))
        p0 == StripSlash(Pathname(href))
        p == IF Len(p0) > 0 /\ Last(p0) = "index" THEN SubSeq(p0, 1, Len(p0) - 1) ELSE p0
        remainder == SubSeq(p, Len(indexBasePath) + 1, Len(p))
        NonEmpty(x) == x # ""
        segments == SelectSeqBy(NonEmpty, remainder)
    IN IF href.host # indexUrl.host THEN <<>>
       ELSE IF ~(IsPrefix(indexBasePath, p) /\ Len(p) > Len(indexBasePath)) THEN <<>>
       ELSE IF Len(segments) = 0 \/ Len(segments) > 2 THEN <<>>
       ELSE <<Url(href.host, p)>>

\* [...new Set(links.flatMap(...))]
componentUrls(indexUrl, links) ==
    LET One(href) == componentUrlOf(indexUrl, Href(href)) IN Dedup(FlatMap(One, links))

\* the phase-2 queue: every component URL followed by its sub-tab URLs
\* (visited is still empty when it is built)
buildQueue(urls) ==
    LET Entries(u) == <<u>> \o expandSubTabUrls(u) IN FlatMap(Entries, urls)

PHASE1_PAGE == CONCURRENCY

Ended(t) == tasks[t].pc \in {"capped", "dup", "done"}
QueuedTask == [IdleTask EXCEPT !.pc = "queued"]

\* chromium.launch, browser.newPage, and page.goto(indexUrl) is issued
ComponentStart ==
    /\ mode = "component" /\ runState = "start"
    /\ runState' = IF args.launch THEN "phase1" ELSE "raised"
    /\ UNCHANGED <<mode, args, crawlVars, tasks, pages, robotsVars, now,
                   storeVars, faults, navLog, attempts>>

\* page.goto(indexUrl) settles; the links, the component URLs, the queue, the
\* pool of pages and the tasks handed to limit()
Phase1 ==
    /\ mode = "component" /\ runState = "phase1"
    /\ navLog' = navLog \cup {[url |-> args.start, page |-> PHASE1_PAGE,
                              delayed |-> FALSE]}
    /\ \E f \in FaultChoices :
         /\ Charge(f)
         /\ IF f
            THEN /\ runState' = "raised"
                 /\ UNCHANGED <<queue, tasks, pages>>
            ELSE LET links == Loaded(args.start).links
                     q == buildQueue(componentUrls(args.start, links))
                     n == Len(Slice(q, args.maxPages * 2))
                 IN /\ runState' = "running"
                    /\ pages' = [pages EXCEPT ![PHASE1_PAGE] = Loaded(args.start)]
                    /\ queue' = q
                    /\ tasks' = [i \in 0..(n - 1) |-> [QueuedTask EXCEPT !.url = q[i + 1]]]
    /\ UNCHANGED <<mode, args, visited, crawledUrls, robotsVars, now,
                   storeVars, attempts>>

\* pages[i % CONCURRENCY]
pageOf(i) == i % CONCURRENCY

\* p-limit starts the next queued function while fewer than CONCURRENCY run;
\* the function runs to its first suspension
TaskStart(i) ==
    /\ mode = "component" /\ runState = "running"
    /\ tasks[i].pc = "queued"
    /\ \A j \in DOMAIN tasks : j < i => tasks[j].pc # "queued"
    /\ Cardinality({j \in DOMAIN tasks : tasks[j].pc # "queued" /\ ~Ended(j)}) < CONCURRENCY
    /\ LET url == tasks[i].url
           normalised == Normalise(url)
       IN IF Len(crawledUrls) >= args.maxPages
          THEN /\ tasks' = [tasks EXCEPT ![i].pc = "capped"]
               /\ UNCHANGED <<visited, robotsFetches, attempts>>
          ELSE IF normalised \in visited
          THEN /\ tasks' = [tasks EXCEPT ![i].pc = "dup"]
               /\ UNCHANGED <<visited, robotsFetches, attempts>>
          ELSE /\ visited' = claim(visited, normalised)
               /\ EnterVisit(i, url, pageOf(i))
    /\ UNCHANGED <<mode, args, runState, queue, crawledUrls, pages, robotsCache,
                   delayCache, lastRequestTime, released, now, storeVars, faults, navLog>>

\* if (markdown) crawledUrls.push(url)
TaskFinish(i) ==
    /\ mode = "component" /\ runState = "running"
    /\ tasks[i].pc = "ret"
    /\ crawledUrls' = IF Truthy(tasks[i].md) THEN Append(crawledUrls, tasks[i].url)
                      ELSE crawledUrls
    /\ tasks' = [tasks EXCEPT ![i].pc = "done"]
    /\ UNCHANGED <<mode, args, runState, queue, visited, pages, robotsVars, now,
                   storeVars, faults, navLog, attempts>>

\* Promise.all(tasks) resolves; the pages and the browser are closed
ComponentReturn ==
    /\ mode = "component" /\ runState = "running"
    /\ \A i \in DOMAIN tasks : Ended(i)
    /\ runState' = "returned"
    /\ UNCHANGED <<mode, args, crawlVars, tasks, pages, robotsVars, now,
                   storeVars, faults, navLog, attempts>>

\* the button page and its usage tab exist; the index also links to itself,
\* to button/index, off the host and to a page nested too deep
SiteButtons == (Normalise(uIdx) :> Page(MdGuide, <<uBtn, uBtnIndex, uIdx, uOffHost, uDeep>>, "", ""))
            @@ (uBtn :> Page(MdGuide, <<>>, "e1", ""))
            @@ (uBtnUsage :> Page(MdGuide2, <<>>, "", ""))
\* the button page and its usage tab are nearly empty, the api tab is not
SiteThin == (Normalise(uIdx) :> Page(MdGuide, <<uBtn>>, "", ""))
         @@ (uBtn :> Page(MdShort, <<>>, "", ""))
         @@ (uBtnApi :> Page(MdGuide, <<>>, "", ""))
\* the index links to two sub-tab pages
SiteTabLinks == (Normalise(uIdx) :> Page(MdGuide, <<uBtnUsage, uCardExamples>>, "", ""))
             @@ (uBtnUsage :> Page(MdGuide, <<>>, "", ""))
             @@ (uCardExamples :> Page(MdGuide2, <<>>, "", ""))

PolicyNoApi == [present |-> TRUE, disallow |-> {<<"components", "button", "api">>},
                delayUA |-> -1, delayAny |-> -1]

ComponentArgs ==
    [start : {uIdx}, version : {"latest"}, maxPages : 1..MaxPagesBound,
     urlGlob : {<<>>}, expandTabs : {TRUE}, sitemap : {<<>>},
     site : {SiteButtons, SiteThin, SiteTabLinks},
     robots : {[ok |-> FALSE, policy |-> NoPolicy], [ok |-> TRUE, policy |-> PolicyNoApi]},
     launch : BOOLEAN]

InitComponent ==
    /\ mode = "component"
    /\ args \in ComponentArgs
    /\ tasks = [t \in {} |-> IdleTask]
    /\ pages = [h \in 0..CONCURRENCY |-> Blank]
    /\ InitCommon

NextComponent ==
    \/ ComponentStart
    \/ Phase1
    \/ \E i \in DOMAIN tasks : TaskStart(i)
    \/ \E i \in DOMAIN tasks : TaskFinish(i)
    \/ ComponentReturn
    \/ \E t \in DOMAIN tasks : RobotsResponse(t)
    \/ \E t \in DOMAIN tasks : EnforceDelay(t)
    \/ \E t \in DOMAIN tasks : Wake(t)
    \/ \E t \in DOMAIN tasks : ShouldCrawl(t)
    \/ \E t \in DOMAIN tasks : Goto(t)
    \/ \E t \in DOMAIN tasks : Content(t)

SpecComponent == InitComponent /\ [][NextComponent]_vars

\* the index links to the usage tab of the button and to the button itself:
\* the queue holds the usage tab twice
SiteDupLinks == (Normalise(uIdx) :> Page(MdGuide, <<uBtnUsage, uBtn>>, "", ""))
             @@ (uBtn :> Page(MdGuide, <<>>, "", ""))
             @@ (uBtnUsage :> Page(MdGuide2, <<>>, "", ""))

\* robots.txt keeps crawlers off the tabs the button does not have
PolicyTabsOff ==
    [present |-> TRUE,
     disallow |-> {<<"components", "button", "examples">>,
                   <<"components", "button", "accessibility">>,
                   <<"components", "button", "api">>},
     delayUA |-> -1, delayAny |-> -1]

DupArgs ==
    [start : {uIdx}, version : {"latest"}, maxPages : 1..MaxPagesBound,
     urlGlob : {<<>>}, expandTabs : {TRUE}, sitemap : {<<>>},
     site : {SiteDupLinks},
     robots : {[ok |-> TRUE, policy |-> PolicyTabsOff]},
     launch : {TRUE}]

InitDup ==
    /\ mode = "component"
    /\ args \in DupArgs
    /\ tasks = [t \in {} |-> IdleTask]
    /\ pages = [h \in 0..CONCURRENCY |-> Blank]
    /\ InitCommon

\* crawlComponentDocs on the index page with the repeated link
SpecDup == InitDup /\ [][NextComponent]_vars

(***************************************************************************)
(* extractSinglePage (single-page mode), called again and again on one URL *)
(* of a site whose page is edited between the calls.                       *)
(***************************************************************************)
\* chromium.launch, browser.newPage, visitPage up to its first suspension
SingleStart ==
    /\ mode = "single" /\ runState = "start"
    /\ Len(attempts) < MaxCalls
    /\ runState' = "running"
    /\ EnterVisit(0, args.start, 0)
    /\ UNCHANGED <<mode, args, crawlVars, pages, robotsCache, delayCache,
                   lastRequestTime, released, now, storeVars, faults, navLog>>

\* markdown ?? '', page.close, browser.close
SingleReturn ==
    /\ mode = "single" /\ runState = "running"
    /\ tasks[0].pc = "ret"
    /\ runState' = "start"
    /\ tasks' = [tasks EXCEPT ![0].pc = "idle"]
    /\ pages' = [pages EXCEPT ![0] = Blank]
    /\ UNCHANGED <<mode, args, crawlVars, robotsVars, now, storeVars, faults,
                   navLog, attempts>>

\* markdown ?? '': what extractSinglePage returns for the result of a visit
returnedBySingle(md) == IF md.ok THEN md.lines ELSE <<>>

\* the editions of the page: with an ETag, with a Last-Modified date, with
\* neither; with one chunk, two chunks, none
Editions ==
    {Page(MdGuide, <<>>, "e1", ""), Page(MdGuide2, <<>>, "", "t2"),
     Page(MdGuide2, <<>>, "", ""), Page(MdHeadings, <<>>, "", ""),
     Page(MdAlmost, <<>>, "e3", ""), Page(MdJust, <<>>, "", "")}

\* the site's owner edits the page between two calls
Publish ==
    /\ mode = "single" /\ runState = "start"
    /\ 0 < Len(attempts) /\ Len(attempts) < MaxCalls
    /\ \E edition \in Editions :
         /\ edition # SitePage(args.start)
         /\ args' = [args EXCEPT !.site = Put(@, Normalise(args.start), edition)]
    /\ UNCHANGED <<mode, runState, crawlVars, tasks, pages, robotsVars, now,
                   storeVars, faults, navLog, attempts>>

SingleArgs ==
    [start : {uA}, version : {"latest"}, maxPages : {1},
     urlGlob : {<<>>}, expandTabs : {FALSE}, sitemap : {<<>>},
     site : {(uA :> edition) : edition \in Editions},
     robots : {[ok |-> FALSE, policy |-> NoPolicy], [ok |-> TRUE, policy |-> PolicyStrict]},
     launch : {TRUE}]

InitSingle ==
    /\ mode = "single"
    /\ args \in SingleArgs
    /\ tasks = [t \in {0} |-> IdleTask]
    /\ pages = [h \in {0} |-> Blank]
    /\ InitCommon

NextSingle ==
    \/ SingleStart
    \/ SingleReturn
    \/ Publish
    \/ \E t \in DOMAIN tasks : RobotsResponse(t)
    \/ \E t \in DOMAIN tasks : EnforceDelay(t)
    \/ \E t \in DOMAIN tasks : Wake(t)
    \/ \E t \in DOMAIN tasks : ShouldCrawl(t)
    \/ \E t \in DOMAIN tasks : Goto(t)
    \/ \E t \in DOMAIN tasks : Content(t)

SpecSingle == InitSingle /\ [][NextSingle]_vars

(***************************************************************************)
(* Single-page calls on hosts whose robots.txt carries Crawl-delay         *)
(* directives from 0 to 1.5 s                                              *)
(***************************************************************************)
DelayPolicies ==
    {[present |-> TRUE, disallow |-> {}, delayUA |-> ua, delayAny |-> any] :
        ua \in {-1, 0, 200, 1500}, any \in {-1, 300, 1000}}

DelayArgs ==
    [start : {uA}, version : {"latest"}, maxPages : {1},
     urlGlob : {<<>>}, expandTabs : {FALSE}, sitemap : {<<>>},
     site : {(uA :> Page(MdGuide, <<>>, "", ""))},
     robots : {[ok |-> FALSE, policy |-> NoPolicy]}
                \cup {[ok |-> TRUE, policy |-> p] : p \in DelayPolicies},
     launch : {TRUE}]

InitDelay ==
    /\ mode = "single"
    /\ args \in DelayArgs
    /\ tasks = [t \in {0} |-> IdleTask]
    /\ pages = [h \in {0} |-> Blank]
    /\ InitCommon

SpecDelay == InitDelay /\ [][NextSingle]_vars

(***************************************************************************)
(* The store and the recrawl check called directly: upsertDocument,        *)
(* upsertChunks and shouldCrawl on a store of two URLs.  The clock moves   *)
(* with every write.  shouldCrawl writes nothing, so a behaviour is a       *)
(* series of writes with one recrawl check at its end.                     *)
(***************************************************************************)
\* the cache validators a response or a record may carry: <<etag, last-modified>>
Validators ==
    {<<"", "">>, <<"e1", "">>, <<"e2", "">>, <<"", "t1">>, <<"", "t2">>,
     <<"e1", "t1">>, <<"e1", "t2">>, <<"e2", "t1">>}

StoreUrls == {uA, uB}
\* the versions the callers write under: the default one and the run's
StoreVersions == {"latest", args.version}

Writable ==
    /\ mode = "store" /\ lastOp.op \notin {"shouldCrawl", "search"}
    /\ now < START_TIME + MaxStoreOps

\* upsertDocument(url, version, domain, title, markdown, etag, lastModified)
StoreUpsertDocument ==
    /\ Writable
    /\ \E url \in StoreUrls, version \in StoreVersions,
          markdown \in {MdGuide, MdGuide2}, v \in Validators :
         LET up == upsertDocument(documents, url, version, url.host, url,
                                  markdown, v[1], v[2], now + 1)
         IN /\ documents' = up.documents
            /\ lastOp' = [op |-> "upsertDocument", url |-> url,
                          version |-> version, etag |-> v[1],
                          markdown |-> markdown, result |-> up.changed,
                          docsBefore |-> documents, chunksBefore |-> chunks,
                          ftsBefore |-> chunks_fts, at |-> now + 1]
    /\ now' = now + 1
    /\ UNCHANGED <<mode, args, runState, crawlVars, tasks, pages, robotsVars,
                   chunks, chunks_fts, nextChunkId, faults, navLog, attempts>>

\* upsertChunks(url, version, chunks); an INSERT may fail
StoreUpsertChunks ==
    /\ Writable
    /\ \E url \in StoreUrls, version \in StoreVersions,
          markdown \in {MdGuide, MdGuide2}, f \in FaultChoices :
         LET newChunks == chunkMarkdown(markdown)
             res == upsertChunks(Db, url, version, newChunks,
                                 IF f THEN Len(newChunks) ELSE 0)
         IN /\ Charge(f)
            /\ chunks' = res.db.chunks
            /\ chunks_fts' = res.db.chunks_fts
            /\ nextChunkId' = res.db.nextChunkId
            /\ lastOp' = [op |-> "upsertChunks", url |-> url,
                          version |-> version, threw |-> res.threw,
                          newChunks |-> newChunks, docsBefore |-> documents,
                          chunksBefore |-> chunks, ftsBefore |-> chunks_fts]
    /\ now' = now + 1
    /\ UNCHANGED <<mode, args, runState, crawlVars, tasks, pages, robotsVars,
                   documents, navLog, attempts>>

\* shouldCrawl(url, version) with the answer to its HEAD request
StoreShouldCrawl ==
    /\ mode = "store" /\ lastOp.op \notin {"shouldCrawl", "search"}
    /\ \E url \in StoreUrls, ok \in BOOLEAN, v \in Validators :
         LET probe == [ok |-> ok, etag |-> v[1], last_modified |-> v[2]]
         IN lastOp' = [op |-> "shouldCrawl", url |-> url, version |-> args.version,
                       probe |-> probe,
                       result |-> shouldCrawl(documents, url, args.version, probe)]
    /\ UNCHANGED <<mode, args, runState, crawlVars, tasks, pages, robotsVars, now,
                   documents, chunks, chunks_fts, nextChunkId, faults, navLog, attempts>>

StoreArgs ==
    [start : {uA}, version : {"latest", "v2"}, maxPages : {1},
     urlGlob : {<<>>}, expandTabs : {FALSE}, sitemap : {<<>>},
     site : {EmptyMap}, robots : {[ok |-> FALSE, policy |-> NoPolicy]},
     launch : {TRUE}]

\* what an earlier crawl of A left in the store: the document and its chunk
CrawledBefore ==
    [documents |-> upsertDocument(EmptyMap, uA, "latest", uA.host, uA, MdGuide,
                                  "e1", "t1", START_TIME).documents,
     db |-> upsertChunks([chunks |-> <<>>, chunks_fts |-> {}, nextChunkId |-> 1],
                         uA, "latest", chunkMarkdown(MdGuide), 0).db]

\* the process has opened the store and no call has been made
StoreIdle ==
    /\ mode = "store"
    /\ args \in StoreArgs
    /\ tasks = [t \in {0} |-> IdleTask]
    /\ pages = [h \in {0} |-> Blank]
    /\ runState = "start"
    /\ queue = <<>> /\ visited = {} /\ crawledUrls = <<>>
    /\ robotsCache = EmptyMap /\ delayCache = EmptyMap /\ lastRequestTime = EmptyMap
    /\ now = START_TIME
    /\ faults = 0
    /\ robotsFetches = EmptyMap /\ released = EmptyMap
    /\ navLog = {} /\ attempts = <<>>
    /\ lastOp = [op |-> "none"]

\* the process starts on an empty store, or on the store of an earlier crawl
StoreOpened == StoreIdle /\ (Holds(EmptyStore) \/ Holds(CrawledBefore))

InitStore == StoreOpened /\ args.version = "latest"

NextStore ==
    \/ StoreUpsertDocument
    \/ StoreUpsertChunks
    \/ StoreShouldCrawl

SpecStore == InitStore /\ [][NextStore]_vars

(***************************************************************************)
(* chunkMarkdown called directly, one step per line of the input           *)
(***************************************************************************)
\* the lines a document is made of: headings of three levels, a body line
\* long enough for a chunk, "Short.", an empty line, three blanks
Lines ==
    {Heading(1, "T", 1), Heading(2, "S1", 2), Heading(2, "S2", 2),
     Heading(3, "D", 1), Body("text", 20), Body("Short.", 6),
     Body("", 0), Body("", 3)}

\* markdown.split('\n'): at least one line
Documents == UNION {[1..n -> Lines] : n \in 1..MaxLines}

\* one turn of the for loop
ChunkerLine ==
    /\ mode = "chunker" /\ lastOp.op = "chunkMarkdown" /\ ~lastOp.returned
    /\ lastOp.line <= Len(args.markdown)
    /\ lastOp' = [lastOp EXCEPT
                    !.st = chunkLine(@, args.markdown[lastOp.line]),
                    !.line = @ + 1]
    /\ UNCHANGED <<mode, args, runState, crawlVars, tasks, pages, robotsVars, now,
                   documents, chunks, chunks_fts, nextChunkId, faults, navLog, attempts>>

\* the flush after the loop, and the return
ChunkerReturn ==
    /\ mode = "chunker" /\ lastOp.op = "chunkMarkdown" /\ ~lastOp.returned
    /\ lastOp.line > Len(args.markdown)
    /\ lastOp' = [lastOp EXCEPT !.st = flush(@), !.returned = TRUE]
    /\ UNCHANGED <<mode, args, runState, crawlVars, tasks, pages, robotsVars, now,
                   documents, chunks, chunks_fts, nextChunkId, faults, navLog, attempts>>

InitChunker ==
    /\ mode = "chunker"
    /\ args \in [markdown : Documents]
    /\ tasks = [t \in {0} |-> IdleTask]
    /\ pages = [h \in {0} |-> Blank]
    /\ Loaded0
    /\ lastOp = [op |-> "chunkMarkdown", line |-> 1, returned |-> FALSE,
                 st |-> [chunks |-> <<>>, headingStack |-> <<>>,
                         currentContent |-> <<>>]]

NextChunker ==
    \/ ChunkerLine
    \/ ChunkerReturn

SpecChunker == InitChunker /\ [][NextChunker]_vars

(***************************************************************************)
(* discoverSitemapUrls called directly, one step per candidate location    *)
(***************************************************************************)
uSitemap(i) == Url("h", SITEMAP_PATHS[i])
uChildSitemap == Url("h", <<"sitemaps", "pages.xml">>)

\* what a sitemap location may answer: no answer, 404, a page that is no
\* sitemap, a <urlset>, an empty <urlset>, an index of a bad URL and the child
\* sitemap, an index of the first candidate (of itself, at that location)
SitemapAnswers ==
    {Throws,
     Answer(FALSE, FALSE, TRUE, <<uA>>),
     Answer(TRUE, FALSE, FALSE, <<uA>>),
     Answer(TRUE, FALSE, TRUE, <<uA, MalformedUrl, uX, uA, uB>>),
     Answer(TRUE, FALSE, TRUE, <<>>),
     Answer(TRUE, TRUE, FALSE, <<MalformedUrl, uChildSitemap>>),
     Answer(TRUE, TRUE, TRUE, <<uSitemap(1)>>)}

SitemapLocations == {uSitemap(i) : i \in 1..Len(SITEMAP_PATHS)} \cup {uChildSitemap}

\* one turn of the loop over SITEMAP_PATHS, with the break after it
SitemapTry ==
    /\ mode = "sitemap" /\ lastOp.op = "discoverSitemapUrls" /\ ~lastOp.returned
    /\ lastOp.next <= Len(SITEMAP_PATHS) /\ lastOp.collected = <<>>
    /\ LET got == fetchAndParseSitemap(args.web, Url(args.start.host,
                                                    SITEMAP_PATHS[lastOp.next]),
                                       lastOp.collected, args.pathFilter, 0)
       IN lastOp' = [lastOp EXCEPT !.collected = got.collected,
                                   !.fetched = @ \o got.fetched,
                                   !.next = @ + 1,
                                   !.raised = got.raised,
                                   !.returned = got.raised]
    /\ UNCHANGED <<mode, args, runState, crawlVars, tasks, pages, robotsVars, now,
                   documents, chunks, chunks_fts, nextChunkId, faults, navLog, attempts>>

\* return [...collected].slice(0, MAX_SITEMAP_URLS)
SitemapReturn ==
    /\ mode = "sitemap" /\ lastOp.op = "discoverSitemapUrls" /\ ~lastOp.returned
    /\ lastOp.next > Len(SITEMAP_PATHS) \/ lastOp.collected # <<>>
    /\ lastOp' = [lastOp EXCEPT !.returned = TRUE,
                                !.result = Slice(lastOp.collected, MAX_SITEMAP_URLS)]
    /\ UNCHANGED <<mode, args, runState, crawlVars, tasks, pages, robotsVars, now,
                   documents, chunks, chunks_fts, nextChunkId, faults, navLog, attempts>>

InitSitemap ==
    /\ mode = "sitemap"
    /\ args \in [start : {uA}, pathFilter : {"", "doc", "b"},
                  web : [SitemapLocations -> SitemapAnswers]]
    /\ tasks = [t \in {0} |-> IdleTask]
    /\ pages = [h \in {0} |-> Blank]
    /\ Loaded0
    /\ lastOp = [op |-> "discoverSitemapUrls", next |-> 1, collected |-> <<>>,
                 fetched |-> <<>>, raised |-> FALSE, returned |-> FALSE,
                 result |-> <<>>]

NextSitemap ==
    \/ SitemapTry
    \/ SitemapReturn

SpecSitemap == InitSitemap /\ [][NextSitemap]_vars

\* the loop has a turn to make: the condition under which SitemapTry can act
CanTry ==
    /\ mode = "sitemap" /\ lastOp.op = "discoverSitemapUrls" /\ ~lastOp.returned
    /\ lastOp.next <= Len(SITEMAP_PATHS) /\ lastOp.collected = <<>>

\* discoverSitemapUrls is one async function whose awaits are fetches that
\* settle within their 10 s timeout: a turn of its loop that is possible is
\* taken, and so is the return.  The fairness of SitemapTry is weak fairness
\* with its enabling condition written out.
SpecSitemapFair ==
    /\ SpecSitemap
    /\ WF_vars(SitemapReturn)
    /\ ([]<>(~CanTry) \/ []<><<SitemapTry>>_vars)

(***************************************************************************)
(* Search over stores of one to twenty-three chunks                        *)
(***************************************************************************)
\* twenty-one sections that hold the word "api"; the fifth and the last one
\* hold it twice
MdReference ==
    [i \in 1..42 |->
        IF i % 2 = 0 THEN Body("api", 12)
        ELSE IF i \in {9, 41} THEN Heading(1, "api", 3) ELSE Heading(1, "Section", 7)]

\* what an earlier crawl of the reference page B left in the store
CrawledReference ==
    [documents |-> upsertDocument(EmptyMap, uB, "latest", uB.host, uB, MdReference,
                                  "", "", START_TIME).documents,
     db |-> upsertChunks(EmptyStore.db, uB, "latest", chunkMarkdown(MdReference), 0).db]

Queries ==
    {<<>>, <<" ">>, <<"api">>, <<" ", "api", " ">>, <<"api", " ", "Section">>,
     <<"intro">>, <<"docs">>, <<"nothing">>, <<"Top", " ", "nothing">>, <<"docs", " ", "Top">>}

\* searchDocuments(query, version)
StoreSearch ==
    /\ mode = "store" /\ lastOp.op \notin {"shouldCrawl", "search"}
    /\ \E query \in Queries, version \in {""} \cup StoreVersions :
         lastOp' = [op |-> "search", query |-> query, version |-> version,
                    result |-> searchDocuments(Db, documents, query, version)]
    /\ UNCHANGED <<mode, args, runState, crawlVars, tasks, pages, robotsVars, now,
                   documents, chunks, chunks_fts, nextChunkId, faults, navLog, attempts>>

InitSearch ==
    /\ StoreIdle /\ args.version = "v2"
    /\ Holds(EmptyStore) \/ Holds(CrawledBefore) \/ Holds(CrawledReference)

NextSearch ==
    \/ StoreUpsertChunks
    \/ StoreSearch

SpecSearch == InitSearch /\ [][NextSearch]_vars

(***************************************************************************)
(* The store written under two versions                                    *)
(***************************************************************************)
InitVersions == StoreOpened /\ args.version = "v2"

NextVersions ==
    \/ StoreUpsertDocument
    \/ StoreUpsertChunks

SpecVersions == InitVersions /\ [][NextVersions]_vars

(***************************************************************************)
(* The three crawl modes side by side, on hosts whose robots.txt disallows *)
(* a part of the site.                                                     *)
(***************************************************************************)
RobotsBfsArgs ==
    {a \in BfsArgs : a.launch /\ a.robots = [ok |-> TRUE, policy |-> PolicyStrict]
                     /\ a.site = SiteLoop /\ a.urlGlob = <<>>}

RobotsSingleArgs ==
    {[a EXCEPT !.start = u] :
        a \in {b \in SingleArgs : b.robots.ok /\ b.site[uA].etag = "e1"},
        u \in {uA, uB}}

InitRobots ==
    /\ \/ mode = "bfs" /\ args \in RobotsBfsArgs
          /\ tasks = [t \in {0} |-> IdleTask] /\ pages = [h \in {0} |-> Blank]
       \/ mode = "single" /\ args \in RobotsSingleArgs
          /\ tasks = [t \in {0} |-> IdleTask] /\ pages = [h \in {0} |-> Blank]
       \/ mode = "component" /\ args \in DupArgs
          /\ tasks = [t \in {} |-> IdleTask] /\ pages = [h \in 0..CONCURRENCY |-> Blank]
    /\ InitCommon

NextRobots ==
    \/ RunCrawlerStart
    \/ BfsDequeue
    \/ BfsAfterVisit
    \/ BfsReturn
    \/ SingleStart
    \/ SingleReturn
    \/ Publish
    \/ ComponentStart
    \/ Phase1
    \/ \E i \in DOMAIN tasks : TaskStart(i)
    \/ \E i \in DOMAIN tasks : TaskFinish(i)
    \/ ComponentReturn
    \/ \E t \in DOMAIN tasks : RobotsResponse(t)
    \/ \E t \in DOMAIN tasks : EnforceDelay(t)
    \/ \E t \in DOMAIN tasks : Wake(t)
    \/ \E t \in DOMAIN tasks : ShouldCrawl(t)
    \/ \E t \in DOMAIN tasks : Goto(t)
    \/ \E t \in DOMAIN tasks : Content(t)

SpecRobots == InitRobots /\ [][NextRobots]_vars

(***************************************************************************)
(* Breadth-first and single-page runs on sites with near-empty pages       *)
(***************************************************************************)
ThinBfsArgs == {a \in BfsArgs : a.launch /\ a.site = SiteTabs}

InitThin ==
    /\ \/ mode = "bfs" /\ args \in ThinBfsArgs
       \/ mode = "single" /\ args \in SingleArgs
    /\ tasks = [t \in {0} |-> IdleTask]
    /\ pages = [h \in {0} |-> Blank]
    /\ InitCommon

NextThin ==
    \/ RunCrawlerStart
    \/ BfsDequeue
    \/ BfsAfterVisit
    \/ BfsReturn
    \/ SingleStart
    \/ SingleReturn
    \/ Publish
    \/ \E t \in DOMAIN tasks : RobotsResponse(t)
    \/ \E t \in DOMAIN tasks : EnforceDelay(t)
    \/ \E t \in DOMAIN tasks : Wake(t)
    \/ \E t \in DOMAIN tasks : ShouldCrawl(t)
    \/ \E t \in DOMAIN tasks : Goto(t)
    \/ \E t \in DOMAIN tasks : Content(t)

SpecThin == InitThin /\ [][NextThin]_vars

(***************************************************************************)
(* Breadth-first mode: claims                                              *)
(***************************************************************************)
\* C1: in a breadth-first run no two visit attempts are made on the same
\* normalised URL (the URL with one trailing slash stripped).
C1_OneAttemptPerNormalisedUrl ==
    mode = "bfs" =>
        \A i, j \in 1..Len(attempts) :
            i # j => Normalise(attempts[i]) # Normalise(attempts[j])

\* a finished run that started at /docs/a/ with a sitemap listing /docs/a once
\* and /docs/b twice, and that visited both pages
C1_Witness ==
    /\ mode = "bfs" /\ runState = "returned" /\ queue = <<>>
    /\ args.start = uASlash /\ args.sitemap = <<uB, uA, uB, uX>>
    /\ uASlash \in Range(attempts) /\ uB \in Range(attempts)
    /\ Len(crawledUrls) >= 1

(***************************************************************************)
(* Component mode: claims                                                  *)
(***************************************************************************)
\* C2: in component mode the success list never holds more than maxPages URLs,
\* under every interleaving of the workers.
C2_SuccessListWithinMaxPages ==
    mode = "component" => Len(crawledUrls) <= args.maxPages

\* C3: in component mode no two visits in flight at the same moment use the
\* same page handle.
C3_PageHandleServesOneVisit ==
    mode = "component" =>
        \A i, j \in DOMAIN tasks :
            (i # j /\ InVisit(i) /\ InVisit(j)) => tasks[i].page # tasks[j].page

\* the delay interval enforceCrawlDelay uses for a hostname
delayOf(hostname) == GetOr(delayCache, hostname, DEFAULT_CRAWL_DELAY_MS)

\* C4: for every hostname any two requests released by enforceCrawlDelay are
\* separated by at least the hostname's delay interval, also when several
\* workers call it concurrently.
C4_ReleasesSeparatedByDelay ==
    \A h \in DOMAIN released :
        \A i, j \in 1..Len(released[h]) :
            i < j => released[h][j] - released[h][i] >= delayOf(h)

\* C5: every page navigation, the phase-1 navigation to the index page
\* included, is preceded by an enforceCrawlDelay call for the URL's hostname.
C5_NavigationAfterEnforceDelay ==
    \A n \in navLog : n.delayed

\* C6: the robots policy of a hostname is fetched at most once, also when the
\* first calls for the hostname are made concurrently by several workers.
C6_RobotsFetchedOncePerHost ==
    \A h \in DOMAIN robotsFetches : robotsFetches[h] <= 1

\* queue entry k was visited, or dropped because it was already visited
Dispatched(k) ==
    /\ (k - 1) \in DOMAIN tasks
    /\ tasks[k - 1].pc \in {"done", "dup"}

\* C9: a component run does not end while the success count is below maxPages
\* and some entry of the phase-2 queue was neither visited nor dropped as a
\* duplicate.
C9_QueueDrainedOrCapReached ==
    (mode = "component" /\ runState = "returned" /\ Len(crawledUrls) < args.maxPages)
        => \A k \in 1..Len(queue) : Dispatched(k)

\* C10: a failure on a single page, the phase-1 index page included, is
\* absorbed; a crawl raises only when the rendering engine fails to start.
C10_OnlyLaunchFailureRaises ==
    runState = "raised" => ~args.launch

(***************************************************************************)
(* Single-page mode: claims about the store                                *)
(***************************************************************************)
\* C7: after a visit that overwrote the document of (url, version) with
\* Markdown m, the chunks stored for (url, version) are the chunker's output
\* on m, also when the chunker emits no chunk for m.
C7_ChunksFollowDocument ==
    (lastOp.op = "visit" /\ lastOp.changed /\ ~lastOp.threw)
        => chunksOf(chunks, lastOp.url, lastOp.version) = chunkMarkdown(lastOp.markdown)

\* C8: upsertChunks is all-or-nothing: when inserting the new set fails, the
\* prior chunks of (url, version) and their index entries are still present.
C8_UpsertChunksAllOrNothing ==
    (lastOp.op = "visit" /\ lastOp.threw)
        => /\ chunksOf(chunks, lastOp.url, lastOp.version) = lastOp.before
           /\ ftsOf(chunks_fts, lastOp.url, lastOp.version) = lastOp.ftsBefore

(***************************************************************************)
(* Scenarios                                                               *)
(***************************************************************************)
\* C11: for an index page linking to /components/button/usage and
\* /components/card/examples, phase 1 derives exactly the base URLs
\* /components/button and /components/card, and the phase-2 queue holds 14
\* entries.
C11_BaseUrlsAndFourteenEntries ==
    (mode = "component" /\ args.site = SiteTabLinks /\ runState \in {"running", "returned"})
        => /\ Range(componentUrls(args.start, pages[PHASE1_PAGE].links)) = {uBtn, uCard}
           /\ Len(queue) = 14

\* the pages of the two-page site answered every navigation of the run
NoFault == faults = 0

\* C12 as stated: crawlSite from A with maxPages = 5 on the two-page site
\* returns A and B and makes no third visit attempt.
C12_TwoUrlsTwoAttempts ==
    (mode = "bfs" /\ args \in MutualArgs /\ runState = "returned" /\ NoFault)
        => /\ crawledUrls = <<uA, uB>>
           /\ Len(attempts) <= 2

\* C12, amended: the run returns A and B and attempts no URL twice; without
\* sub-tab expansion it makes two visit attempts, with it (the default) it also
\* attempts the six sub-tab URLs of A and of B, fourteen attempts in all.
C12_TwoUrlsNoRepeatedAttempt ==
    (mode = "bfs" /\ args \in MutualArgs /\ runState = "returned" /\ NoFault)
        => /\ crawledUrls = <<uA, uB>>
           /\ Cardinality(Range(attempts)) = Len(attempts)
           /\ Len(attempts) = IF args.expandTabs THEN 14 ELSE 2

\* the run with the default sub-tab expansion has returned
C12_Witness ==
    /\ mode = "bfs" /\ args \in MutualArgs /\ args.expandTabs
    /\ runState = "returned" /\ NoFault
    /\ Len(attempts) = 14 /\ crawledUrls = <<uA, uB>>

\* C13: in component mode each normalised URL of the queue is passed to a
\* visit at most once per run, for every interleaving of the workers.
C13_OneVisitPerNormalisedUrl ==
    mode = "component" =>
        \A i, j \in 1..Len(attempts) :
            i < j => Normalise(attempts[i]) # Normalise(attempts[j])

\* the second queue entry for the usage tab was dropped while the visit of
\* the first was still in flight
C13_Witness ==
    /\ mode = "component" /\ args.site = SiteDupLinks
    /\ \E i, j \in DOMAIN tasks :
         /\ i < j /\ tasks[i].url = tasks[j].url
         /\ InVisit(i) /\ tasks[j].pc = "dup"

(***************************************************************************)
(* Breadth-first mode: the success list                                    *)
(***************************************************************************)
\* the position of a URL among the visit attempts
AttemptIndex(u) == CHOOSE k \in 1..Len(attempts) : attempts[k] = u

\* the success list holds attempted URLs, in the order of their attempts
InAttemptOrder ==
    /\ Range(crawledUrls) \subseteq Range(attempts)
    /\ \A i, j \in 1..Len(crawledUrls) :
           i < j => AttemptIndex(crawledUrls[i]) < AttemptIndex(crawledUrls[j])

\* a visit attempt starts only below the cap
AttemptBelowCap ==
    Len(attempts') > Len(attempts) => Len(crawledUrls) < args.maxPages

\* the list grows exactly when a visit hands back Markdown that is neither null
\* nor empty, and then by the URL of that visit
PushIffMarkdown ==
    (tasks[0].pc = "ret" /\ tasks'[0].pc # "ret")
        => crawledUrls' = IF tasks[0].md.ok /\ tasks[0].md.lines # <<>>
                          THEN Append(crawledUrls, tasks[0].url)
                          ELSE crawledUrls

PushOnlyAfterVisit ==
    crawledUrls' # crawledUrls => tasks[0].pc = "ret"

\* C14: in breadth-first mode the list never holds more than maxPages URLs, no
\* visit attempt starts once the success count has reached maxPages, and the
\* list holds exactly the URLs whose visit yielded non-empty Markdown, in the
\* order they were visited.
C14_SuccessListOfBfs ==
    /\ [](mode = "bfs" => (Len(crawledUrls) <= args.maxPages /\ InAttemptOrder))
    /\ [][mode = "bfs" => (AttemptBelowCap /\ PushIffMarkdown /\ PushOnlyAfterVisit)]_vars

\* the cap ended a run that had a failed visit behind it and URLs still queued
C14_Witness ==
    /\ mode = "bfs" /\ runState = "returned"
    /\ Len(crawledUrls) = args.maxPages /\ queue # <<>>
    /\ Len(attempts) > Len(crawledUrls) /\ Len(crawledUrls) = 2

(***************************************************************************)
(* The recrawl check and the store: claims                                 *)
(***************************************************************************)
\* the record shouldCrawl found, if any
StoredFor(op) == documents[Key(op.url, op.version)]

\* the stored record and the probe agree on a validator they both carry
Unchanged(op) ==
    /\ hasDocument(documents, op.url, op.version)
    /\ op.probe.ok
    /\ LET stored == StoredFor(op)
       IN \/ /\ stored.etag # "" /\ op.probe.etag # ""
             /\ stored.etag = op.probe.etag
          \/ /\ stored.etag = "" \/ op.probe.etag = ""
             /\ stored.last_modified # "" /\ op.probe.last_modified # ""
             /\ stored.last_modified = op.probe.last_modified

\* C15: shouldCrawl returns false exactly when a record exists, the probe
\* succeeds, and either both etags are present and equal, or an etag is missing
\* on one side and both last-modified values are present and equal; when both
\* etags are present the last-modified values are not consulted.
C15_ShouldCrawlFalseIffUnchanged ==
    lastOp.op = "shouldCrawl" => (lastOp.result = ~Unchanged(lastOp))

\* equal etags with differing last-modified dates: not crawled again
C15_Witness ==
    /\ lastOp.op = "shouldCrawl" /\ ~lastOp.result
    /\ hasDocument(documents, lastOp.url, lastOp.version)
    /\ StoredFor(lastOp).etag = "e1" /\ lastOp.probe.etag = "e1"
    /\ StoredFor(lastOp).last_modified = "t1" /\ lastOp.probe.last_modified = "t2"

\* the call met a record of (url, version) carrying the etag it was given
SameEtag(op) ==
    /\ hasDocument(op.docsBefore, op.url, op.version)
    /\ op.etag # ""
    /\ op.docsBefore[Key(op.url, op.version)].etag = op.etag

\* the record of (url, version) holds what the call was given
Written(op) ==
    /\ hasDocument(documents, op.url, op.version)
    /\ LET row == documents[Key(op.url, op.version)]
       IN /\ row.markdown = op.markdown
          /\ row.etag = op.etag
          /\ row.timestamp = op.at
    /\ DOMAIN documents = DOMAIN op.docsBefore \cup {Key(op.url, op.version)}
    /\ \A k \in DOMAIN op.docsBefore :
           k # Key(op.url, op.version) => documents[k] = op.docsBefore[k]

\* C20: upsertDocument for an existing (url, version) with the stored etag
\* returns false and leaves the record, its timestamp and the chunks as they
\* were; in every other case it writes the record and returns true.
C20_UpsertDocumentNoOpOnSameEtag ==
    lastOp.op = "upsertDocument" =>
        /\ chunks = lastOp.chunksBefore /\ chunks_fts = lastOp.ftsBefore
        /\ IF SameEtag(lastOp)
           THEN ~lastOp.result /\ documents = lastOp.docsBefore
           ELSE lastOp.result /\ Written(lastOp)

\* the second call brought other Markdown under the stored etag, at a later
\* time, for a URL that has a chunk
C20_Witness ==
    /\ lastOp.op = "upsertDocument" /\ SameEtag(lastOp) /\ ~lastOp.result
    /\ lastOp.markdown # documents[Key(lastOp.url, lastOp.version)].markdown
    /\ lastOp.at > documents[Key(lastOp.url, lastOp.version)].timestamp
    /\ chunksOf(chunks, lastOp.url, lastOp.version) # <<>>

(***************************************************************************)
(* Single-page mode: claims about the visit                                *)
(***************************************************************************)
\* the step in which shouldCrawl answers false
SkipStep == tasks[0].pc = "shouldCrawl" /\ tasks'[0].pc = "ret"

\* C16: when shouldCrawl returns false the visit navigates nowhere and
\* extracts nothing (the page handle is still blank), returns the Markdown last
\* persisted for (url, version), and leaves the document, its timestamp and
\* the chunks unchanged.
C16_SkipReusesStoredMarkdown ==
    [][(mode = "single" /\ SkipStep) =>
          /\ pages[0] = Blank /\ pages'[0] = Blank /\ navLog' = navLog
          /\ hasDocument(documents, tasks[0].url, args.version)
          /\ tasks'[0].md.ok
          /\ tasks'[0].md.lines = documents[Key(tasks[0].url, args.version)].markdown
          /\ documents' = documents /\ chunks' = chunks /\ chunks_fts' = chunks_fts]_vars

\* the second call found the page unchanged and returned the stored Markdown
\* without loading the page
C16_Witness ==
    /\ mode = "single" /\ Len(attempts) = 2
    /\ tasks[0].pc = "ret" /\ tasks[0].delayed /\ pages[0] = Blank
    /\ tasks[0].md.ok /\ tasks[0].md.lines = documents[Key(uA, "latest")].markdown

(***************************************************************************)
(* robots.txt: claims                                                      *)
(***************************************************************************)
\* the policy holds a Disallow rule that matches the URL
Disallowed(policy, url) ==
    policy.present /\ \E p \in policy.disallow : IsPrefix(p, Pathname(url))

\* isAllowed answers for the visit of task t in this step
Decides(t) ==
    /\ tasks[t].pc \in {"idle", "queued", "robots"}
    /\ tasks'[t].pc \notin {"idle", "queued", "robots", "capped", "dup"}

\* the visit ends at once with null: no delay, no probe, no navigation, no write
Refused(t) ==
    /\ tasks'[t].pc = "ret" /\ ~tasks'[t].md.ok
    /\ navLog' = navLog /\ lastRequestTime' = lastRequestTime
    /\ documents' = documents /\ chunks' = chunks /\ chunks_fts' = chunks_fts

\* the caller takes a null result: the success list stays as it is
TakesNull(t) == tasks[t].pc = "ret" /\ tasks'[t].pc # "ret" /\ ~tasks[t].md.ok

\* in the modes that visit one page at a time nothing the cached policy
\* disallows was navigated to, stored or returned
NothingDisallowedKept ==
    mode \in {"bfs", "single"} =>
        \A h \in DOMAIN robotsCache :
            /\ \A n \in navLog :
                   n.url.host = h => ~Disallowed(robotsCache[h], n.url)
            /\ \A k \in DOMAIN documents :
                   k[1].host = h => ~Disallowed(robotsCache[h], k[1])
            /\ \A i \in 1..Len(crawledUrls) :
                   crawledUrls[i].host = h => ~Disallowed(robotsCache[h], crawledUrls[i])

NoPolicyCached(h) == h \in DOMAIN robotsCache /\ ~robotsCache[h].present

\* C18: once the robots fetch of a hostname has failed, the hostname stays
\* cached as having no policy and isAllowed returns true for every URL of the
\* hostname it decides from then on (the model has no reset).
C18_FailedFetchAllowsFromThenOn ==
    [][\A h \in DOMAIN robotsCache :
          NoPolicyCached(h) =>
              /\ h \in DOMAIN robotsCache' /\ ~robotsCache'[h].present
              /\ \A t \in DOMAIN tasks :
                     (Decides(t) /\ tasks'[t].url.host = h) => tasks'[t].pc # "ret"]_vars

(***************************************************************************)
(* Near-empty pages: claims                                                *)
(***************************************************************************)
\* the visit has read a page of fewer than 50 characters after trimming
ReadsShortPage ==
    /\ tasks[0].pc = "content" /\ tasks'[0].pc # "content"
    /\ TrimmedLength(pages[0].md) < 50

\* C19: a page whose Markdown is shorter than 50 characters after trimming is
\* discarded: the visit writes no document and no chunks and raises nothing,
\* the URL is not added to the success list, and extractSinglePage returns the
\* empty string for it.
C19_ShortPageDiscarded ==
    [][/\ ReadsShortPage =>
            /\ tasks'[0].pc = "ret" /\ ~tasks'[0].md.ok
            /\ returnedBySingle(tasks'[0].md) = <<>>
            /\ documents' = documents /\ chunks' = chunks /\ chunks_fts' = chunks_fts
            /\ runState' = runState
       /\ TakesNull(0) => (crawledUrls' = crawledUrls /\ runState' # "raised")]_vars

\* a page of 49 characters between blank lines was read and dropped
C19_Witness ==
    /\ mode = "single" /\ tasks[0].pc = "ret" /\ ~tasks[0].md.ok
    /\ pages[0].md = MdAlmost /\ pages[0].url = uA
    /\ ~hasDocument(documents, uA, "latest")

(***************************************************************************)
(* The store under two versions: claims                                    *)
(***************************************************************************)
\* the chunk rows of (url, version), ids included
rowsOf(rows, url, version) ==
    LET Mine(r) == r.url = url /\ r.version = version
    IN SelectSeq(rows, Mine)

\* the chunk rows of every key but (url, version)
rowsBeside(rows, url, version) ==
    LET Other(r) == ~(r.url = url /\ r.version = version)
    IN SelectSeq(rows, Other)

\* the call that returned is an upsertChunks that did not throw
Replaced == lastOp.op = "upsertChunks" /\ ~lastOp.threw

\* C21: after upsertChunks(url, version, S) succeeds the chunk rows of
\* (url, version) are the elements of S in order, no row of an earlier set
\* remains, and the rows of every other key are unchanged.
C21_ReplaceChunksLeavesOnlyNewSet ==
    Replaced =>
        /\ chunksOf(chunks, lastOp.url, lastOp.version) = lastOp.newChunks
        /\ Range(rowsOf(chunks, lastOp.url, lastOp.version))
               \cap Range(lastOp.chunksBefore) = {}
        /\ rowsBeside(chunks, lastOp.url, lastOp.version)
               = rowsBeside(lastOp.chunksBefore, lastOp.url, lastOp.version)

\* a set of two chunks replaced a set of one, beside the chunks of another version
C21_Witness ==
    /\ Replaced
    /\ Len(rowsOf(lastOp.chunksBefore, lastOp.url, lastOp.version)) = 1
    /\ Len(lastOp.newChunks) = 2
    /\ rowsBeside(chunks, lastOp.url, lastOp.version) # <<>>

\* C22: in every state of the store the search index holds one entry per chunk
\* row, with the row's id and columns, and no entry without a chunk row.
C22_IndexMatchesChunks ==
    /\ Cardinality(chunks_fts) = Len(chunks)
    /\ \A i, j \in 1..Len(chunks) : chunks[i].id = chunks[j].id => i = j
    /\ \A i \in 1..Len(chunks) :
           [rowid |-> chunks[i].id, url |-> chunks[i].url,
            version |-> chunks[i].version,
            heading_path |-> chunks[i].heading_path,
            content |-> chunks[i].content] \in chunks_fts
    /\ \A e \in chunks_fts : \E i \in 1..Len(chunks) : chunks[i].id = e.rowid

\* rows were deleted and the inserts that followed were rolled back, while
\* another key keeps its rows
C22_Witness ==
    /\ lastOp.op = "upsertChunks" /\ lastOp.threw
    /\ rowsOf(lastOp.chunksBefore, lastOp.url, lastOp.version) # <<>>
    /\ rowsOf(chunks, lastOp.url, lastOp.version) = <<>>
    /\ chunks # <<>>

\* the write named by lastOp left the other versions of its URL alone
OtherVersionsKept ==
    \A v2 \in {"latest", "v2"} \ {lastOp.version} :
        /\ (<<lastOp.url, v2>> \in DOMAIN documents)
               = (<<lastOp.url, v2>> \in DOMAIN lastOp.docsBefore)
        /\ <<lastOp.url, v2>> \in DOMAIN documents =>
               documents[<<lastOp.url, v2>>] = lastOp.docsBefore[<<lastOp.url, v2>>]
        /\ rowsOf(chunks, lastOp.url, v2) = rowsOf(lastOp.chunksBefore, lastOp.url, v2)

\* C23: the store holds at most one document per (url, version), and a write
\* for (url, v1) leaves the document and the chunks of (url, v2) unchanged for
\* every other version v2.
C23_VersionsIndependent ==
    /\ \A u \in StoreUrls, v \in {"latest", "v2"} :
           Cardinality({k \in DOMAIN documents :
                           documents[k].url = u /\ documents[k].version = v}) <= 1
    /\ \A k \in DOMAIN documents :
           documents[k].url = k[1] /\ documents[k].version = k[2]
    /\ lastOp.op \in {"upsertDocument", "upsertChunks"} => OtherVersionsKept

\* version v2 of A was written with other Markdown while the default version
\* of A holds a document and a chunk
C23_Witness ==
    /\ lastOp.op = "upsertDocument" /\ lastOp.result
    /\ lastOp.url = uA /\ lastOp.version = "v2"
    /\ <<uA, "latest">> \in DOMAIN documents /\ <<uA, "v2">> \in DOMAIN documents
    /\ documents[<<uA, "latest">>].markdown # documents[<<uA, "v2">>].markdown
    /\ rowsOf(chunks, uA, "latest") # <<>>

(***************************************************************************)
(* Search: claims                                                          *)
(***************************************************************************)
\* C24: searchDocuments returns at most 20 results, and the score of a result
\* is never below the score of the result after it.
C24_AtMostTwentyByDescendingScore ==
    lastOp.op = "search" =>
        /\ Len(lastOp.result) <= 20
        /\ \A i \in 1..(Len(lastOp.result) - 1) :
               lastOp.result[i].score >= lastOp.result[i + 1].score

\* more than twenty chunks held the word; the twenty returned start with the
\* two chunks of the highest score, one of them the last row of the table
C24_Witness ==
    /\ lastOp.op = "search" /\ lastOp.query = <<"api">>
    /\ Len(chunks) > 20 /\ Len(lastOp.result) = 20
    /\ lastOp.result[2].score > lastOp.result[3].score
    /\ lastOp.result[2].id > 20

\* some chunk row that passes the version filter holds every word of the query
SomeChunkHoldsEveryWord(query, version) ==
    \E i \in 1..Len(chunks) :
        /\ version # "" => chunks[i].version = version
        /\ \A k \in 1..Len(query) :
               query[k] # " " =>
                   \/ query[k] \in {"https", chunks[i].url.host, chunks[i].version}
                   \/ query[k] \in Range(chunks[i].url.path)
                   \/ query[k] \in Range(JsonParse(chunks[i].heading_path))
                   \/ \E n \in 1..Len(chunks[i].content) :
                          chunks[i].content[n].text = query[k]

\* the query holds no word
BlankQuery(query) == \A k \in 1..Len(query) : query[k] = " "

\* C25: searchDocuments returns the empty list when no indexed chunk matches
\* the query and when the query is empty or white space only.
C25_NoMatchGivesEmptyList ==
    lastOp.op = "search" =>
        ((BlankQuery(lastOp.query)
             \/ ~SomeChunkHoldsEveryWord(lastOp.query, lastOp.version))
            => lastOp.result = <<>>)

\* one word of the query is in the store and the other is in no chunk
C25_Witness ==
    /\ lastOp.op = "search" /\ lastOp.query = <<"Top", " ", "nothing">>
    /\ lastOp.result = <<>>
    /\ \E i \in 1..Len(chunks) : "Top" \in Range(JsonParse(chunks[i].heading_path))

(***************************************************************************)
(* The chunker: claims                                                     *)
(***************************************************************************)
\* the level of the heading line that carries the title (every title of Lines
\* has one level)
levelOfTitle(title) == (CHOOSE l \in Lines : l.level > 0 /\ l.text = title).level

\* every title of the path is of a shallower level than the title after it
Descends(path) ==
    \A i \in 1..(Len(path) - 1) : levelOfTitle(path[i]) < levelOfTitle(path[i + 1])

\* C26: after a heading line has been processed the heading path holds no title
\* of an earlier heading of the same or a deeper level: in the heading stack
\* and in the heading path of every chunk, each title is of a strictly
\* shallower level than the title that follows it.
C26_HeadingPathDescends ==
    lastOp.op = "chunkMarkdown" =>
        /\ Descends(lastOp.st.headingStack)
        /\ \A i \in 1..Len(lastOp.st.chunks) :
               Descends(lastOp.st.chunks[i].heading_path)

\* the input was all empty lines and white space
BlankInput == \A i \in 1..Len(args.markdown) : IsBlank(args.markdown[i])

\* the step flushes a buffer of fewer than 10 characters after trimming
FlushesShortBody ==
    /\ lastOp.st.currentContent # lastOp'.st.currentContent
    /\ lastOp'.st.currentContent = <<>>
    /\ TrimmedLength(lastOp.st.currentContent) < 10

\* C27: every chunk the chunker emits has a trimmed content of at least 10
\* characters; every flush, the final one included, drops a shorter body; an
\* input of empty lines and white space gives the empty list.
C27_ChunksOfTenCharactersOrMore ==
    /\ [](lastOp.op = "chunkMarkdown" =>
            /\ \A i \in 1..Len(lastOp.st.chunks) :
                   /\ TextLength(lastOp.st.chunks[i].content) >= 10
                   /\ Trim(lastOp.st.chunks[i].content) = lastOp.st.chunks[i].content
            /\ (lastOp.returned /\ BlankInput) => lastOp.st.chunks = <<>>)
    /\ [][(lastOp.op = "chunkMarkdown" /\ FlushesShortBody)
             => lastOp'.st.chunks = lastOp.st.chunks]_vars

\* "Short." between blank lines was dropped at the final flush, after a chunk
\* of twenty characters had been emitted at a heading
C27_Witness ==
    /\ lastOp.op = "chunkMarkdown" /\ lastOp.returned
    /\ args.markdown = <<Body("text", 20), Heading(2, "S1", 2),
                         Body("", 3), Body("Short.", 6)>>
    /\ Len(lastOp.st.chunks) = 1

(***************************************************************************)
(* Sitemap discovery: claims                                               *)
(***************************************************************************)
\* the location gives no sitemap: no answer, an error status, or a text that
\* is neither an index nor a <urlset>
FailsAt(url) ==
    LET res == fetch(args.web, url)
    IN res.kind = "throw" \/ ~res.ok \/ (~res.index /\ ~res.urlset)

\* the <loc> values of the <urlset> sitemaps that were served
ServedLocs ==
    UNION {Range(args.web[u].locs) :
             u \in {l \in DOMAIN args.web : ~FailsAt(l) /\ ~args.web[l].index}}

\* C28: discoverSitemapUrls never raises on remote failure: a sitemap that is
\* unreachable, answers with an error status or is malformed contributes no
\* URL, at a candidate location and below an index, and when every candidate
\* location fails the result is the empty list.
C28_SitemapFailuresContributeNothing ==
    lastOp.op = "discoverSitemapUrls" =>
        /\ ~lastOp.raised
        /\ Range(lastOp.collected) \subseteq ServedLocs
        /\ lastOp.returned =>
               /\ Range(lastOp.result) \subseteq ServedLocs
               /\ (\A i \in 1..Len(SITEMAP_PATHS) : FailsAt(uSitemap(i)))
                      => lastOp.result = <<>>

\* the first location did not answer, the second answered 404, the third is an
\* index of a bad URL and of a child that did not answer: the empty list
C28_Witness ==
    /\ lastOp.op = "discoverSitemapUrls" /\ lastOp.returned
    /\ args.web[uSitemap(1)] = Throws
    /\ args.web[uSitemap(2)] = Answer(FALSE, FALSE, TRUE, <<uA>>)
    /\ args.web[uSitemap(3)] = Answer(TRUE, TRUE, FALSE, <<MalformedUrl, uChildSitemap>>)
    /\ args.web[uChildSitemap] = Throws
    /\ lastOp.result = <<>> /\ lastOp.next = 4

(***************************************************************************)
(* The success list and the store: claims                                  *)
(***************************************************************************)
\* C29: every URL of the list that runCrawler or crawlComponentDocs returns,
\* and every URL for which extractSinglePage returns Markdown that is not
\* empty, has a document under (url, version) when the operation returns; the
\* list has the property from the moment a URL is pushed.
C29_ReturnedUrlsAreStored ==
    /\ \A i \in 1..Len(crawledUrls) :
           hasDocument(documents, crawledUrls[i], args.version)
    /\ (mode = "single" /\ tasks[0].pc = "ret"
          /\ returnedBySingle(tasks[0].md) # <<>>)
           => hasDocument(documents, tasks[0].url, args.version)

\* a crawl returned two URLs, both stored
C29_Witness ==
    /\ runState = "returned" /\ Len(crawledUrls) = 2
    /\ \A i \in 1..2 : hasDocument(documents, crawledUrls[i], args.version)

(***************************************************************************)
(* Link discovery after a visit served from the store: claims              *)
(***************************************************************************)
\* the step is the bookkeeping after a visit that returned Markdown
AfterSuccessfulVisit ==
    /\ mode = "bfs" /\ tasks[0].pc = "ret" /\ tasks'[0].pc = "idle"
    /\ Len(crawledUrls') = Len(crawledUrls) + 1

\* the anchors of the page the site serves at u, as hrefs
AnchorsOf(u) == {Href(l) : l \in Range(SitePage(u).links)}

\* C30: the links enqueued after a successful visit of u are unseen anchors,
\* on the start hostname, of the page of u, also when the visit was served
\* from the store without a navigation (sub-tab expansion is off here).
C30_EnqueuedLinksAreOfVisitedPage ==
    [][AfterSuccessfulVisit =>
          \A i \in (Len(queue) + 1)..Len(queue') :
              /\ queue'[i] \in AnchorsOf(tasks[0].url)
              /\ queue'[i].host = args.start.host
              /\ Normalise(queue'[i]) \notin visited]_vars

(***************************************************************************)
(* Documents and their chunks: claims                                      *)
(***************************************************************************)
\* no visit is in progress
NoVisitInProgress == \A t \in DOMAIN tasks : tasks[t].pc = "idle"

\* C31: in every state in which no visit is in progress, the chunk rows stored
\* for a (url, version) that has a document are the chunker's output on the
\* Markdown of that document (stated for runs in which no request and no
\* statement has failed).
C31_ChunksAreChunkerOutputOfDocument ==
    (NoVisitInProgress /\ faults = 0) =>
        \A k \in DOMAIN documents :
            chunksOf(chunks, k[1], k[2]) = chunkMarkdown(documents[k].markdown)

(***************************************************************************)
(* The crawl delay: claims                                                 *)
(***************************************************************************)
\* the Crawl-delay directive that applies to the crawler in the policy cached
\* for the hostname, in ms; the default without a policy or a directive
directiveOf(h) ==
    LET policy == robotsCache[h]
    IN IF policy.present /\ policy.delayUA # -1 THEN policy.delayUA
       ELSE IF policy.present /\ policy.delayAny # -1 THEN policy.delayAny
       ELSE 500

\* enforceCrawlDelay acts for task 0: it sleeps or lets the request pass
EnforcesDelay == tasks[0].pc = "delay" /\ tasks'[0].pc # "delay"

\* the interval enforceCrawlDelay used in the step is d
UsesInterval(d) ==
    LET last == GetOr(lastRequestTime, tasks[0].url.host, 0)
    IN IF tasks'[0].pc = "sleep"
       THEN now - last < d /\ tasks'[0].wake = last + d
       ELSE now - last >= d

\* C32 as stated: the interval is the directive for the crawler's agent, else
\* the wildcard directive, else 500 ms.
C32_IntervalIsDirective ==
    [][EnforcesDelay => UsesInterval(directiveOf(tasks[0].url.host))]_vars

\* C32: the interval enforceCrawlDelay uses for a hostname is the directive for
\* the crawler's agent, else the wildcard directive, else 500 ms, and never
\* less than 500 ms: a directive below 500 ms is raised to 500 ms.
C32_IntervalIsDirectiveAtLeastDefault ==
    [][EnforcesDelay =>
          /\ delayOf(tasks[0].url.host) = Max(directiveOf(tasks[0].url.host), 500)
          /\ UsesInterval(Max(directiveOf(tasks[0].url.host), 500))]_vars

\* the second call slept until 1.5 s after the first request, under a policy
\* with 1.5 s for the agent and 1 s for everyone
C32_Witness ==
    /\ uA.host \in DOMAIN robotsCache
    /\ robotsCache[uA.host].delayUA = 1500 /\ robotsCache[uA.host].delayAny = 1000
    /\ uA.host \in DOMAIN released
    /\ Len(released[uA.host]) = 2
    /\ released[uA.host][2] = released[uA.host][1] + 1500

(***************************************************************************)
(* Breadth-first mode, seeding and the path filter: claims                 *)
(***************************************************************************)
\* C33: in breadth-first mode the first visit attempt of a run is made on the
\* start URL, whatever the sitemap, the path filter and expandTabs are.
C33_FirstAttemptIsStartUrl ==
    (mode = "bfs" /\ attempts # <<>>) => attempts[1] = args.start

\* the pathname of u holds the text "docs"
UnderDocs(u) == \E i \in 1..Len(u.path) : u.path[i] = "docs"

\* C34: in a breadth-first run with the path filter /docs/**, every URL that is
\* navigated to and every URL of the success list has a pathname that holds
\* "docs", whether it was seeded from the sitemap, given as the start URL,
\* discovered as a link or added as a sub-tab.
C34_FilterHoldsForNavigatedAndCrawled ==
    (mode = "bfs" /\ args.urlGlob = <<"docs", "**">>) =>
        /\ \A n \in navLog : UnderDocs(n.url)
        /\ \A i \in 1..Len(crawledUrls) : UnderDocs(crawledUrls[i])
        /\ \A i \in 1..Len(attempts) : UnderDocs(attempts[i])

\* a finished run from /guide under the filter: the start URL was taken from
\* the queue and dropped, the two sitemap pages under /docs were crawled
C34_Witness ==
    /\ mode = "bfs" /\ runState = "returned"
    /\ args.urlGlob = <<"docs", "**">> /\ args.start = uGuide
    /\ uGuide \in visited
    /\ Range(crawledUrls) = {uA, uB}
    /\ \E n \in navLog : n.url = uA

\* a visit attempt is made on the entry at the front of the queue, which leaves
\* the queue
AttemptsFront ==
    attempts' # attempts =>
        /\ queue # <<>>
        /\ attempts' = Append(attempts, Head(queue))
        /\ queue' = Tail(queue)

\* the queue changes at its two ends only: seeding puts the start URL at the
\* front, the loop takes the front entry, and new entries go to the end
ChangesAtEnds ==
    queue' # queue =>
        \/ runState = "start" /\ queue = <<>> /\ Head(queue') = args.start
        \/ queue # <<>> /\ queue' = Tail(queue)
        \/ Len(queue') > Len(queue) /\ SubSeq(queue', 1, Len(queue)) = queue

\* C35: breadth-first mode makes its visit attempts in the order in which the
\* URLs entered the queue: every attempt is on the front entry, entries leave
\* at the front only (visited, filtered out or attempted), entries are added
\* at the end only, and the one entry put at the front is the start URL when
\* the queue is seeded; so a run from /guide over a sitemap that lists /docs/b
\* before /docs/a never attempts /docs/a before /docs/b.
C35_AttemptsInQueueOrder ==
    /\ [][mode = "bfs" => (AttemptsFront /\ ChangesAtEnds)]_vars
    /\ [](mode = "bfs" =>
            \A i, j \in 1..Len(attempts) :
                (i < j /\ args.start = uGuide /\ args.sitemap = <<uB, uA>>
                   /\ attempts[i] = uA) => attempts[j] # uB)

\* the start URL went first although the sitemap entries were seeded before it,
\* then the sitemap entries in their order; the links found on the way wait
\* behind them
C35_Witness ==
    /\ mode = "bfs" /\ runState = "returned"
    /\ args.start = uGuide /\ args.sitemap = <<uB, uA>> /\ ~args.expandTabs
    /\ attempts = <<uGuide, uB, uA>>
    /\ queue # <<>>

(***************************************************************************)
(* Breadth-first mode, termination: claims                                 *)
(***************************************************************************)
\* every visit attempt completes: the run is never inside visitPage for ever
EveryVisitCompletes == []<>(~InVisit(0))

\* C36: on a site of finitely many URLs on which every visit attempt completes,
\* a breadth-first run returns, also over mutual links, self links and sub-tab
\* expansion, and when it has returned the queue is empty or the success list
\* holds maxPages URLs.
C36_BfsRunTerminates ==
    /\ EveryVisitCompletes => ((runState = "running") ~> (runState = "returned"))
    /\ [](runState = "returned" =>
             (queue = <<>> \/ Len(crawledUrls) = args.maxPages))

\* a run over the two pages that link to each other, with sub-tab expansion,
\* has returned with an empty queue after crawling both
C36_Witness ==
    /\ runState = "returned" /\ args.site = SiteMutual /\ args.expandTabs
    /\ queue = <<>> /\ Range(crawledUrls) = {uA, uB}
    /\ Len(attempts) > 2

(***************************************************************************)
(* Sitemap discovery, termination and bounds: claims                       *)
(***************************************************************************)
\* no URL occurs twice in s
NoDuplicates(s) == \A i, j \in 1..Len(s) : s[i] = s[j] => i = j

Occurrences(i, word) ==
    LET c == chunks[i]
        texts == <<"https", c.url.host>> \o c.url.path \o <<c.version>>
                     \o JsonParse(c.heading_path)
                     \o [k \in 1..Len(c.content) |-> c.content[k].text]
    IN Cardinality({k \in 1..Len(texts) : texts[k] = word})

\* the words of a query
WordsOf(query) == {query[k] : k \in 1..Len(query)} \ {" "}

\* the chunk rows of the version that hold every word of the query
Candidates(query, version) ==
    {i \in 1..Len(chunks) :
        /\ chunks[i].version = version
        /\ \A w \in WordsOf(query) : Occurrences(i, w) > 0}

\* the rows a result list stands for
RowsOf(result) == {i \in 1..Len(chunks) : \E k \in 1..Len(result) : result[k].id = chunks[i].id}

\* C38: a search with a version returns chunks of that version that hold every
\* word of the query, as many of them as there are up to 20, and no chunk of
\* the version that was left out holds the words more often than one that was
\* returned: chunks of other versions take no place among the 20.
C38_SearchWithinVersion ==
    (lastOp.op = "search" /\ lastOp.version # "" /\ WordsOf(lastOp.query) # {}) =>
        LET cand == Candidates(lastOp.query, lastOp.version)
            rows == RowsOf(lastOp.result)
            Total(i) == SumSeq([k \in 1..Len(ftsQuery(lastOp.query)) |->
                                   Occurrences(i, ftsQuery(lastOp.query)[k])])
        IN /\ rows \subseteq cand
           /\ Cardinality(rows) = Len(lastOp.result)
           /\ Len(lastOp.result) = Min(20, Cardinality(cand))
           /\ \A i \in rows, j \in cand \ rows : Total(i) >= Total(j)

\* 21 chunks of version latest hold the word with the same score and lower row
\* ids than the one chunk of version v2 that holds it; the search in v2 returns
\* that chunk
C38_Witness ==
    /\ lastOp.op = "search" /\ lastOp.query = <<"docs">> /\ lastOp.version = "v2"
    /\ Cardinality(Candidates(<<"docs">>, "latest")) > 20
    /\ Len(lastOp.result) = 1
    /\ \A i \in Candidates(<<"docs">>, "latest") : chunks[i].id < lastOp.result[1].id

(***************************************************************************)
(* The chunker, heading path of a chunk: claims                            *)
(***************************************************************************)
\* the heading stack after the first n lines of the input, taken from the
\* heading lines alone
StackAfter(n) ==
    LET RECURSIVE after(_)
        after(k) ==
            IF k = 0 THEN <<>>
            ELSE IF args.markdown[k].level > 0
                 THEN spliceHeading(after(k - 1), args.markdown[k].level,
                                    args.markdown[k].text)
                 ELSE after(k - 1)
    IN after(n)

\* the chunker emits a chunk in this step
EmitsChunk ==
    /\ mode = "chunker" /\ lastOp.op = "chunkMarkdown"
    /\ Len(lastOp'.st.chunks) = Len(lastOp.st.chunks) + 1

\* C39: a chunk carries the heading path as it stood when its body lines were
\* read: the path set by the headings before the body, not by the heading line
\* that triggered the flush; body lines before the first heading are emitted
\* under the empty path.
C39_ChunkCarriesPathOfItsBody ==
    [][EmitsChunk =>
          /\ Last(lastOp'.st.chunks).heading_path = lastOp.st.headingStack
          /\ Last(lastOp'.st.chunks).heading_path = StackAfter(lastOp.line - 1)
          /\ (\A k \in 1..(lastOp.line - 1) : args.markdown[k].level = 0)
                 => Last(lastOp'.st.chunks).heading_path = <<>>]_vars

\* "text", "# T", "text": the first chunk has the empty path although the flush
\* came with the heading T, the second has the path of T
C39_Witness ==
    /\ mode = "chunker" /\ lastOp.op = "chunkMarkdown" /\ lastOp.returned
    /\ args.markdown = <<Body("text", 20), Heading(1, "T", 1), Body("text", 20)>>
    /\ Len(lastOp.st.chunks) = 2
    /\ lastOp.st.chunks[1].heading_path = <<>>
    /\ lastOp.st.chunks[2].heading_path = <<"T">>

(***************************************************************************)
(* Breadth-first mode, the hostname of the pages: claims                   *)
(***************************************************************************)
\* C40: every URL a breadth-first run navigates to has the hostname of the
\* start URL, whether it entered the queue from the sitemap, from link
\* discovery or from sub-tab expansion.
C40_NavigatesOnStartHostOnly ==
    mode = "bfs" => \A n \in navLog : n.url.host = args.start.host

====
